---- MODULE Spec2Model ----
\* The name splitter of bibfmt.py (splitname) as a state machine: one state
\* per position of the character loop, one action per branch of the loop
\* body, and the two stages that follow the loop (end-of-input clean-up and
\* part assignment).  A character is a one-character string, a name and a
\* word are sequences of characters.
EXTENDS Integers, Sequences, FiniteSets, TLC

\* ------------------------------------------------------------ bounds ----

\* Longest name drawn from all strings over Alphabet.
MaxLen == 4

\* Most words in a word-structured name.
MaxWords == 5

\* Most words in a word-structured name that has special words.
MaxOddWords == 3

\* Most characters inside the braces of a one-group name.
MaxInBrace == 2

\* -------------------------------------------------------- characters ----

\* str.isupper() on ASCII letters.
Upper ==
    {"A", "B", "C", "D", "E", "F", "G", "H", "I", "J", "K", "L", "M", "N", "O",
     "P", "Q", "R", "S", "T", "U", "V", "W", "X", "Y", "Z"}

\* The lowercase ASCII letters.
Lower ==
    {"a", "b", "c", "d", "e", "f", "g", "h", "i", "j", "k", "l", "m", "n", "o",
     "p", "q", "r", "s", "t", "u", "v", "w", "x", "y", "z"}

isalpha(c) == c \in Upper \cup Lower

isupper(c) == c \in Upper

\* whitespace = set(' ~\r\n\t')
whitespace == {" ", "~", "\r", "\n", "\t"}

\* The characters str.split() with no argument splits on (no tilde).
PyWhitespace == {" ", "\r", "\n", "\t"}

\* ----------------------------------------------------------- helpers ----

\* sections[-1].append(w), cases[-1].append(c): append to the last element.
AppendToLast(ss, x) == [ss EXCEPT ![Len(ss)] = Append(@, x)]

\* list.pop(-1)
PopLast(ss) == SubSeq(ss, 1, Len(ss) - 1)

RECURSIVE Sum(_)
\* sum(cases)
Sum(cs) == IF cs = <<>> THEN 0 ELSE Head(cs) + Sum(Tail(cs))

RECURSIVE TruthyPositions(_, _)
\* [i for i, e in enumerate(cases) if e], as 1-based positions from i on.
TruthyPositions(cs, i) ==
    IF i > Len(cs) THEN <<>>
    ELSE IF cs[i] # 0 THEN <<i>> \o TruthyPositions(cs, i + 1)
    ELSE TruthyPositions(cs, i + 1)

\* 1-based position of the last 0 of lcases (0 if there is none):
\* len(lcases) - lcases[::-1].index(0).
LastLower(lcases) ==
    LET zs == {i \in 1..Len(lcases) : lcases[i] = 0}
    IN IF zs = {} THEN 0 ELSE CHOOSE i \in zs : \A j \in zs : j <= i

\* [word] * n for the closing braces appended at the end of the input.
Braces(n) == [i \in 1..n |-> "}"]

\* -------------------------------------------------- the scanner state ----

\* parts = {'first': [], 'last': [], 'von': [], 'jr': []}
NoParts == [first |-> <<>>, von |-> <<>>, last |-> <<>>, jr |-> <<>>]

\* The locals of splitname before the loop.  specialchar starts as None,
\* which the code only ever tests for truth, so it is FALSE here.
InitScan ==
    [sections |-> << <<>> >>, cases |-> << <<>> >>, word |-> <<>>,
     case |-> -1, level |-> 0, bracestart |-> FALSE, controlseq |-> TRUE,
     specialchar |-> FALSE, pos |-> 1, pc |-> "lookup", error |-> "none",
     blank |-> FALSE, parts |-> NoParts]

\* raise of the named exception.
Raise(s, e) == [s EXCEPT !.pc = "raised", !.error = e]

\* The case a character gives a word that has none yet.
CaseOf(c) == IF isupper(c) THEN 1 ELSE 0

\* A variant of EscapeStep that copies the backslash alone and leaves the
\* character after it to be read as any other.
EscapeStep_BackslashOnly(n, s) ==
    IF s.pos = Len(n) THEN Raise(s, "StopIteration")
    ELSE [s EXCEPT !.word = Append(@, "\\"), !.pos = @ + 1]

\* An escape whose escaped character is not whitespace (or is missing:
\* next(nameiter) at the end of the input raises StopIteration).
EscapeStep(n, s) ==
    IF s.pos = Len(n) THEN Raise(s, "StopIteration")
    ELSE LET escaped == n[s.pos + 1]
             first   == s.bracestart
             t       == IF first
                        THEN [s EXCEPT !.bracestart = FALSE,
                                       !.controlseq = isalpha(escaped),
                                       !.specialchar = TRUE]
                        ELSE IF s.case = -1 /\ isalpha(escaped)
                        THEN [s EXCEPT !.case = CaseOf(escaped)]
                        ELSE s
         IN [t EXCEPT !.word = s.word \o <<"\\", escaped>>, !.pos = s.pos + 2]

\* Is the character at pos a backslash that escapes whitespace?
EscapesWhitespace(n, s) ==
    /\ n[s.pos] = "\\"
    /\ s.pos < Len(n)
    /\ n[s.pos + 1] \in whitespace

\* The state in which the rest of the loop body runs: after a backslash
\* before whitespace the backslash is copied and char becomes the whitespace.
Fetch(n, s) ==
    IF EscapesWhitespace(n, s)
    THEN [s EXCEPT !.word = Append(@, "\\"), !.pos = s.pos + 1]
    ELSE s

\* Start of a braced expression.
OpenBraceStep(n, s) ==
    [s EXCEPT !.level = @ + 1, !.word = Append(@, "{"), !.bracestart = TRUE,
              !.controlseq = FALSE, !.specialchar = FALSE, !.pos = @ + 1]

\* A variant of CloseBraceStep that, in non-strict mode, leaves the level
\* as it is.
CloseBraceStep_LenientKeepsLevel(n, strict, s) ==
    IF s.level = 0 /\ strict THEN Raise(s, "UnmatchedBrace")
    ELSE LET w == IF s.level = 0 THEN <<"{">> \o s.word ELSE s.word
         IN [s EXCEPT !.bracestart = FALSE,
                      !.level = IF @ > 0 /\ strict THEN @ - 1 ELSE @,
                      !.controlseq = FALSE, !.specialchar = FALSE,
                      !.word = Append(w, "}"), !.pos = @ + 1]

\* End of a braced expression.
CloseBraceStep(n, strict, s) ==
    IF s.level = 0 /\ strict THEN Raise(s, "UnmatchedBrace")
    ELSE LET w == IF s.level = 0 THEN <<"{">> \o s.word ELSE s.word
         IN [s EXCEPT !.bracestart = FALSE,
                      !.level = IF @ > 0 THEN @ - 1 ELSE 0,
                      !.controlseq = FALSE, !.specialchar = FALSE,
                      !.word = Append(w, "}"), !.pos = @ + 1]

\* Inside a braced expression, with a comma ending the word and opening a
\* section as it does outside braces.
InsideBraceStep_CommaSplits(n, s) ==
    LET char == n[s.pos]
        t == IF s.controlseq
             THEN (IF ~isalpha(char) THEN [s EXCEPT !.controlseq = FALSE] ELSE s)
             ELSE IF s.specialchar /\ s.case = -1 /\ isalpha(char)
             THEN [s EXCEPT !.case = CaseOf(char)]
             ELSE s
    IN IF char = "," /\ Len(s.sections) < 3
       THEN [s EXCEPT !.bracestart = FALSE,
                      !.sections = Append(AppendToLast(@, s.word), <<>>),
                      !.cases = Append(AppendToLast(@, s.case), <<>>),
                      !.word = <<>>, !.case = -1, !.pos = @ + 1]
       ELSE [t EXCEPT !.bracestart = FALSE, !.word = Append(@, char), !.pos = @ + 1]

\* Inside a braced expression.
InsideBraceStep(n, s) ==
    LET char == n[s.pos]
        t == IF s.controlseq
             THEN (IF ~isalpha(char) THEN [s EXCEPT !.controlseq = FALSE] ELSE s)
             ELSE IF s.specialchar /\ s.case = -1 /\ isalpha(char)
             THEN [s EXCEPT !.case = CaseOf(char)]
             ELSE s
    IN [t EXCEPT !.bracestart = FALSE, !.word = Append(@, char), !.pos = @ + 1]

\* End of a word, and of a section when the character is a comma.
EndOfWordStep(n, strict, s) ==
    LET char == n[s.pos]
        t == IF s.word # <<>>
             THEN [s EXCEPT !.sections = AppendToLast(@, s.word),
                            !.word = <<>>,
                            !.cases = AppendToLast(@, s.case),
                            !.case = -1,
                            !.controlseq = FALSE, !.specialchar = FALSE]
             ELSE s
        u == [t EXCEPT !.bracestart = FALSE, !.pos = @ + 1]
    IN IF char # "," THEN u
       ELSE IF Len(u.sections) < 3
       THEN [u EXCEPT !.sections = Append(@, <<>>), !.cases = Append(@, <<>>)]
       ELSE IF strict THEN Raise([t EXCEPT !.bracestart = FALSE], "TooManyCommas")
       ELSE u

\* Regular character.
RegularCharStep(n, s) ==
    LET char == n[s.pos]
    IN [s EXCEPT !.bracestart = FALSE, !.word = Append(@, char),
                 !.case = IF @ = -1 /\ isalpha(char) THEN CaseOf(char) ELSE @,
                 !.pos = @ + 1]

\* EndOfInputStep with the braces left open in non-strict mode not closed.
EndOfInputStep_NoClosingBraces(n, strict, s) ==
    IF s.level > 0 /\ strict THEN Raise(s, "UnterminatedBrace")
    ELSE
    LET w  == s.word
        t  == IF w # <<>>
              THEN [s EXCEPT !.word = w, !.level = 0,
                             !.sections = AppendToLast(@, w),
                             !.cases = AppendToLast(@, s.case)]
              ELSE s
    IN IF t.sections[Len(t.sections)] = <<>>
       THEN IF Len(t.sections) > 1 /\ strict THEN Raise(t, "TrailingComma")
            ELSE LET u == [t EXCEPT !.sections = PopLast(@), !.cases = PopLast(@)]
                 IN IF \A i \in 1..Len(u.sections) : u.sections[i] = <<>>
                    THEN [u EXCEPT !.pc = "returned", !.blank = TRUE]
                    ELSE [u EXCEPT !.pc = "assign"]
       ELSE [t EXCEPT !.pc = "assign"]

\* After the loop: unterminated braces, the final word, the trailing section
\* and the blank result.
EndOfInputStep(n, strict, s) ==
    IF s.level > 0 /\ strict THEN Raise(s, "UnterminatedBrace")
    ELSE
    LET w  == s.word \o Braces(s.level)
        t  == IF w # <<>>
              THEN [s EXCEPT !.word = w, !.level = 0,
                             !.sections = AppendToLast(@, w),
                             !.cases = AppendToLast(@, s.case)]
              ELSE s
    IN IF t.sections[Len(t.sections)] = <<>>
       THEN IF Len(t.sections) > 1 /\ strict THEN Raise(t, "TrailingComma")
            ELSE LET u == [t EXCEPT !.sections = PopLast(@), !.cases = PopLast(@)]
                 IN IF \A i \in 1..Len(u.sections) : u.sections[i] = <<>>
                    THEN [u EXCEPT !.pc = "returned", !.blank = TRUE]
                    ELSE [u EXCEPT !.pc = "assign"]
       ELSE [t EXCEPT !.pc = "assign"]

\* The split into von and last with caseless words taken for lowercase.
VonLast_CaselessAsLower(sec, lcases) ==
    IF Len(sec) = 1 THEN [von |-> <<>>, last |-> sec]
    ELSE IF \E i \in 1..Len(lcases) : lcases[i] <= 0
    THEN LET k     == LastLower([i \in 1..Len(lcases) |-> IF lcases[i] <= 0 THEN 0 ELSE 1])
             split == IF k = Len(lcases) THEN 0 ELSE k
         IN [von |-> SubSeq(sec, 1, split), last |-> SubSeq(sec, split + 1, Len(sec))]
    ELSE [von |-> <<>>, last |-> sec]

\* The first section of a comma form, split into von and last.
VonLast(sec, lcases) ==
    IF Len(sec) = 1 THEN [von |-> <<>>, last |-> sec]
    ELSE IF \E i \in 1..Len(lcases) : lcases[i] = 0
    THEN LET k     == LastLower(lcases)
             split == IF k = Len(lcases) THEN 0 ELSE k
         IN [von |-> SubSeq(sec, 1, split), last |-> SubSeq(sec, split + 1, Len(sec))]
    ELSE [von |-> <<>>, last |-> sec]

\* The boundary counting uppercase words only.
CapitalSplit_UppercaseOnly(p0, cs) ==
    LET ups == [i \in 1..Len(cs) |-> IF cs[i] = 1 THEN 1 ELSE 0]
    IN IF Sum(ups) > 2
       THEN LET capital_position == TruthyPositions(ups, 1)
            IN capital_position[Len(capital_position) - 2]
       ELSE 1

\* Form 1, more than two words: the boundary between first and last.
CapitalSplit(p0, cs) ==
    IF Sum(cs) > 2
    THEN LET capital_position == TruthyPositions(cs, 1)
         IN capital_position[Len(capital_position) - 2]
    ELSE 1

\* Form 1 without the two-word case: two words go through the heuristics
\* for longer names.
Form1_NoTwoWordCase(s) ==
    LET p0 == s.sections[1]
        cs == s.cases[1]
    IN IF Len(p0) = 1 THEN [s EXCEPT !.parts.last = p0, !.pc = "returned"]
       ELSE IF Len(p0[2]) < 2 THEN Raise(s, "IndexError")
       ELSE IF p0[2][2] = "."
       THEN [s EXCEPT !.parts.first = SubSeq(p0, 1, 2),
                      !.parts.last = SubSeq(p0, 3, Len(p0)), !.pc = "returned"]
       ELSE LET k == CapitalSplit(p0, cs)
            IN [s EXCEPT !.parts.first = SubSeq(p0, 1, k),
                         !.parts.last = SubSeq(p0, k + 1, Len(p0)),
                         !.pc = "returned"]

\* Form 1: "First von Last".
Form1(s) ==
    LET p0 == s.sections[1]
        cs == s.cases[1]
    IN IF Len(p0) = 1 THEN [s EXCEPT !.parts.last = p0, !.pc = "returned"]
       ELSE IF Len(p0) = 2
       THEN [s EXCEPT !.parts.first = SubSeq(p0, 1, 1),
                      !.parts.last = SubSeq(p0, 2, 2), !.pc = "returned"]
       ELSE IF Len(p0[2]) < 2 THEN Raise(s, "IndexError")
       ELSE IF p0[2][2] = "."
       THEN [s EXCEPT !.parts.first = SubSeq(p0, 1, 2),
                      !.parts.last = SubSeq(p0, 3, Len(p0)), !.pc = "returned"]
       ELSE LET k == CapitalSplit(p0, cs)
            IN [s EXCEPT !.parts.first = SubSeq(p0, 1, k),
                         !.parts.last = SubSeq(p0, k + 1, Len(p0)),
                         !.pc = "returned"]

\* A variant of Form23 that takes the section before the last one as jr in
\* every comma form.
Form23_JrAlways(s) ==
    LET first == s.sections[Len(s.sections)]
        jr    == s.sections[Len(s.sections) - 1]
        vl    == VonLast(s.sections[1], s.cases[1])
    IN [s EXCEPT !.parts = [first |-> first, von |-> vl.von, last |-> vl.last,
                            jr |-> jr],
                 !.pc = "returned"]

\* Form 2 ("von Last, First") or 3 ("von Last, jr, First").
Form23(s) ==
    LET first == s.sections[Len(s.sections)]
        jr    == IF Len(s.sections) = 3 THEN s.sections[2] ELSE <<>>
        vl    == VonLast(s.sections[1], s.cases[1])
    IN [s EXCEPT !.parts = [first |-> IF first # <<>> /\ first[1] # <<>>
                                      THEN first ELSE <<>>,
                            von |-> vl.von, last |-> vl.last,
                            jr |-> IF jr # <<>> /\ jr[1] # <<>>
                                   THEN jr ELSE <<>>],
                 !.pc = "returned"]

\* Part assignment.
AssignPartsStep(s) == IF Len(s.sections) = 1 THEN Form1(s) ELSE Form23(s)

\* ------------------------------------------------------- the registry ----

Juan == <<"J", "u", "a", "n">>

Carlos == <<"C", "a", "r", "l", "o", "s">>

Nieves == <<"N", "i", "e", "v", "e", "s">>

Tran == <<"T", "r", "a", "n">>

Cao == <<"C", "a", "o">>

Son == <<"S", "o", "n">>

Cesar == <<"C", "e", "s", "a", "r">>

Augusto == <<"A", "u", "g", "u", "s", "t", "o">>

Tacla == <<"T", "a", "c", "l", "a">>

Sp == <<" ">>

\* data.GROUPING_NAMES as a set of <<key, value>> pairs.
GROUPING_NAMES ==
    { <<Juan \o Sp \o Carlos \o Sp \o Nieves, <<Juan \o Sp \o Carlos, <<>>, Nieves, <<>> >> >>,
      <<Tran \o Sp \o Cao \o Sp \o Son, <<Tran \o Sp \o Son, <<>>, Cao, <<>> >> >>,
      <<Cesar \o Sp \o Augusto \o Sp \o Tacla, <<Cesar \o Sp \o Augusto, <<>>, Tacla, <<>> >> >> }

GroupingKeys == {kv[1] : kv \in GROUPING_NAMES}

\* GROUPING_NAMES[k]
GroupingValue(k) == (CHOOSE kv \in GROUPING_NAMES : kv[1] = k)[2]

RECURSIVE PySplit(_, _, _)
\* name.split(): the maximal runs of non-whitespace characters of n from
\* position i on, cur being the run read so far.
PySplit(n, i, cur) ==
    IF i > Len(n) THEN (IF cur = <<>> THEN <<>> ELSE <<cur>>)
    ELSE IF n[i] \in PyWhitespace
    THEN (IF cur = <<>> THEN <<>> ELSE <<cur>>) \o PySplit(n, i + 1, <<>>)
    ELSE PySplit(n, i + 1, Append(cur, n[i]))

RECURSIVE PyJoin(_)
\* " ".join(ws)
PyJoin(ws) ==
    IF ws = <<>> THEN <<>>
    ELSE IF Len(ws) = 1 THEN ws[1]
    ELSE ws[1] \o Sp \o PyJoin(Tail(ws))

\* " ".join(name.split())
Normalize(n) == PyJoin(PySplit(n, 1, <<>>))

\* Group names of exceptional cases: the preset parts of a registered name.
\* The look-up uses the normalized name for the test and the raw name for
\* the subscript, which raises KeyError when the two differ.
GroupingLookupStep(n, s) ==
    IF Normalize(n) \in GroupingKeys
    THEN IF n \in GroupingKeys
         THEN LET name_t == GroupingValue(n)
              IN [s EXCEPT !.parts = [first |-> <<name_t[1]>>, von |-> <<name_t[2]>>,
                                      last |-> <<name_t[3]>>, jr |-> <<name_t[4]>>],
                           !.pc = "returned"]
         ELSE Raise(s, "KeyError")
    ELSE [s EXCEPT !.pc = "scan"]

\* -------------------------------------------------- the loop dispatch ----

AtChar(n, s) == s.pc = "scan" /\ s.pos <= Len(n)

\* An escape that is copied with the escaped character (or has none).
IsEscape(n, s) == AtChar(n, s) /\ n[s.pos] = "\\" /\ ~EscapesWhitespace(n, s)

\* The character the rest of the loop body sees.
CharOf(n, s) == n[Fetch(n, s).pos]

IsOpenBrace(n, s) == AtChar(n, s) /\ ~IsEscape(n, s) /\ CharOf(n, s) = "{"

IsCloseBrace(n, s) == AtChar(n, s) /\ ~IsEscape(n, s) /\ CharOf(n, s) = "}"

IsInsideBrace(n, s) ==
    /\ AtChar(n, s) /\ ~IsEscape(n, s)
    /\ CharOf(n, s) \notin {"{", "}"}
    /\ s.level > 0

IsEndOfWord(n, s) ==
    /\ AtChar(n, s) /\ ~IsEscape(n, s)
    /\ s.level = 0
    /\ CharOf(n, s) \in whitespace \cup {","}

IsRegularChar(n, s) ==
    /\ AtChar(n, s) /\ ~IsEscape(n, s)
    /\ s.level = 0
    /\ CharOf(n, s) \notin whitespace \cup {",", "{", "}"}

IsEndOfInput(n, s) == s.pc = "scan" /\ s.pos > Len(n)

\* One step of splitname from state s.
Step(n, strict, s) ==
    IF s.pc = "lookup" THEN GroupingLookupStep(n, s)
    ELSE IF s.pc = "assign" THEN AssignPartsStep(s)
    ELSE IF IsEndOfInput(n, s) THEN EndOfInputStep(n, strict, s)
    ELSE IF IsEscape(n, s) THEN EscapeStep(n, s)
    ELSE IF IsOpenBrace(n, s) THEN OpenBraceStep(n, Fetch(n, s))
    ELSE IF IsCloseBrace(n, s) THEN CloseBraceStep(n, strict, Fetch(n, s))
    ELSE IF IsInsideBrace(n, s) THEN InsideBraceStep(n, Fetch(n, s))
    ELSE IF IsEndOfWord(n, s) THEN EndOfWordStep(n, strict, Fetch(n, s))
    ELSE RegularCharStep(n, Fetch(n, s))

RECURSIVE Run(_, _, _)
Run(n, strict, s) ==
    IF s.pc \in {"returned", "raised"} THEN s ELSE Run(n, strict, Step(n, strict, s))

\* splitname(name, strict_mode): the final state of the call.
splitname(n, strict) == Run(n, strict, InitScan)

\* -------------------------------------------------------- the inputs ----

\* The characters of the exhaustively enumerated names.
Alphabet == {"A", "b", "1", " ", "~", ",", "{", "}", "\\"}

\* Every string over Alphabet of length at most MaxLen.
Strings == UNION {[1..m -> Alphabet] : m \in 0..MaxLen}

\* Words with a case: uppercase, lowercase and caseless.
CaseWords == { <<"A", "b">>, <<"d", "e">>, <<"1", "2">> }

\* Words the part assignment or the scanner treats specially: an initial
\* with its period, a one-letter word and an open brace.
OddWords == { <<"A", ".">>, <<"b">>, <<"{">> }

\* The names made of m words of ws separated by single spaces.
SpaceNames(ws, m) == {PyJoin(f) : f \in [1..m -> ws]}

\* "First von Last" names: up to MaxWords words with a case, and up to
\* MaxOddWords words of any kind.
PlainNames ==
    UNION ({SpaceNames(CaseWords, m) : m \in 1..MaxWords}
           \cup {SpaceNames(CaseWords \cup OddWords, m) : m \in 1..MaxOddWords})

\* "von Last, First" names with up to MaxWords words.
CommaNames ==
    UNION {{vl \o <<",", " ">> \o f : vl \in SpaceNames(CaseWords, m), f \in CaseWords}
           : m \in 1..(MaxWords - 1)}

\* "von Last, Jr, First" names with up to MaxWords words.
JrNames ==
    UNION {{vl \o <<",", " ", "J", "r", ",", " ">> \o f :
                vl \in SpaceNames(CaseWords, m), f \in CaseWords}
           : m \in 1..(MaxWords - 2)}

\* The characters put inside a brace group.
InBrace == {" ", "~", "\r", "\n", "\t", ",", "A", "\\"}

\* One brace group around at most MaxInBrace characters.
BraceNames ==
    UNION {{<<"{">> \o f \o <<"}">> : f \in [1..m -> InBrace]} : m \in 0..MaxInBrace}

\* Names that end in one or two commas.
TrailingNames ==
    UNION {{vl \o tl : vl \in SpaceNames(CaseWords, m),
                       tl \in {<<",">>, <<",", ",">>, <<",", " ", ",">>}}
           : m \in 1..MaxOddWords}

\* Registered names, as written and with other spacing.
GroupingProbes ==
    GroupingKeys \cup {Tran \o Sp \o Sp \o Cao \o Sp \o Son,
                       Sp \o Juan \o Sp \o Carlos \o Sp \o Nieves,
                       Tran \o <<"~">> \o Cao \o Sp \o Son,
                       Cesar \o <<"\t">> \o Augusto \o <<"\n">> \o Tacla}

\* The separators put between the words of SeparatorNames.
Separators == {<<" ">>, <<"~">>, <<" ", " ">>, <<"\t", "~">>}

\* Three-word names with other separators than one space, outside and
\* inside braces.
SeparatorNames ==
    {u \o s \o v \o t \o w :
        u \in {<<"A", "b">>, <<"d", "e">>},
        v \in {<<"{", "~", "}", "b">>, <<"{", " ", " ", "}", "A">>, <<"d", "e">>},
        w \in {<<"A", "b">>, <<"d", "e">>},
        s \in Separators, t \in Separators}

\* A name of data.WHOLE_NAMES, one of data.SPLITED_NAMES and one like it.
TableProbes ==
    { <<"T", "h", "e", " ", "S", "T", "R", "E", "A", "M", " ", "G", "r", "o", "u", "p">>,
      <<"C", "h", ".", " ", "G", "o", "l", "l", "e", "r">>,
      <<"C", "h", "r", ".", " ", "G", "o", "l", "l", "e", "r">> }

Names ==
    Strings \cup PlainNames \cup CommaNames \cup JrNames \cup TrailingNames
            \cup BraceNames \cup GroupingProbes \cup SeparatorNames
            \cup TableProbes

\* ------------------------------------------------------------ the run ----

\* name and strict_mode are the arguments of splitname and the variables
\* from sections to parts its locals and result; op, arg and ret are the
\* function, argument and return value of a call of one of the other
\* functions. The variables from new_db on are the locals of
\* dblp_search_entries, the two files it reads and writes, and the waits
\* and Retry-After values of the attempts for the current entry.
VARIABLES name, strict_mode, sections, cases, word, case, level, bracestart,
          controlseq, specialchar, pos, pc, error, blank, parts, op, arg, ret,
          new_db, no_matches, skip_entries, current, attempt, fast_retry,
          slept, retry_after, path_write, no_matches_path

\* The state of a search of the external source.
search == <<new_db, no_matches, skip_entries, current, attempt, fast_retry,
            slept, retry_after, path_write, no_matches_path>>

vars == <<name, strict_mode, sections, cases, word, case, level, bracestart,
          controlseq, specialchar, pos, pc, error, blank, parts, op, arg, ret,
          search>>

\* A file that does not exist, and one with the given content.
Absent == [exists |-> FALSE, content |-> <<>>]

File(content) == [exists |-> TRUE, content |-> content]

\* skip_entries is None, or a set of ids.
None == [none |-> TRUE, ids |-> {}]

Ids(ids) == [none |-> FALSE, ids |-> ids]

\* No search of the external source is under way.
NoSearch ==
    /\ new_db = <<>> /\ no_matches = <<>> /\ skip_entries = None
    /\ current = 1 /\ attempt = 1 /\ fast_retry = TRUE
    /\ slept = <<>> /\ retry_after = <<>>
    /\ path_write = Absent /\ no_matches_path = Absent

\* The locals of the running call as one record.
Cur ==
    [sections |-> sections, cases |-> cases, word |-> word, case |-> case,
     level |-> level, bracestart |-> bracestart, controlseq |-> controlseq,
     specialchar |-> specialchar, pos |-> pos, pc |-> pc, error |-> error,
     blank |-> blank, parts |-> parts]

Set(s) ==
    /\ sections' = s.sections /\ cases' = s.cases /\ word' = s.word
    /\ case' = s.case /\ level' = s.level /\ bracestart' = s.bracestart
    /\ controlseq' = s.controlseq /\ specialchar' = s.specialchar
    /\ pos' = s.pos /\ pc' = s.pc /\ error' = s.error /\ blank' = s.blank
    /\ parts' = s.parts
    /\ UNCHANGED <<name, strict_mode, search, op, arg, ret>>

Init ==
    /\ name \in Names
    /\ strict_mode \in BOOLEAN
    /\ sections = InitScan.sections /\ cases = InitScan.cases
    /\ word = InitScan.word /\ case = InitScan.case /\ level = InitScan.level
    /\ bracestart = InitScan.bracestart /\ controlseq = InitScan.controlseq
    /\ specialchar = InitScan.specialchar /\ pos = InitScan.pos
    /\ pc = InitScan.pc /\ error = InitScan.error /\ blank = InitScan.blank
    /\ parts = InitScan.parts
    /\ op = "splitname" /\ arg = <<>> /\ ret = <<>>
    /\ NoSearch

GroupingLookup == pc = "lookup" /\ Set(GroupingLookupStep(name, Cur))

Escape == IsEscape(name, Cur) /\ Set(EscapeStep(name, Cur))

OpenBrace == IsOpenBrace(name, Cur) /\ Set(OpenBraceStep(name, Fetch(name, Cur)))

CloseBrace ==
    IsCloseBrace(name, Cur) /\ Set(CloseBraceStep(name, strict_mode, Fetch(name, Cur)))

InsideBrace == IsInsideBrace(name, Cur) /\ Set(InsideBraceStep(name, Fetch(name, Cur)))

EndOfWord ==
    IsEndOfWord(name, Cur) /\ Set(EndOfWordStep(name, strict_mode, Fetch(name, Cur)))

RegularChar == IsRegularChar(name, Cur) /\ Set(RegularCharStep(name, Fetch(name, Cur)))

EndOfInput == IsEndOfInput(name, Cur) /\ Set(EndOfInputStep(name, strict_mode, Cur))

AssignParts == pc = "assign" /\ Set(AssignPartsStep(Cur))

Next ==
    \/ GroupingLookup
    \/ Escape
    \/ OpenBrace
    \/ CloseBrace
    \/ InsideBrace
    \/ EndOfWord
    \/ RegularChar
    \/ EndOfInput
    \/ AssignParts

Spec == Init /\ [][Next]_vars

\* ----------------------------------------------------- the properties ----

Returned == pc = "returned"

Raised == pc = "raised"

\* The four violations InvalidName is raised for.
InvalidNameKinds == {"UnmatchedBrace", "UnterminatedBrace", "TooManyCommas", "TrailingComma"}

\* The name has no comma character.
NoComma(n) == \A i \in 1..Len(n) : n[i] # ","

\* The name has no word: it is empty or made of separators only.
NoWord(n) == \A i \in 1..Len(n) : n[i] \in whitespace \cup {","}

\* The name is well-formed: the strict call returns on it.
WellFormed(n) == splitname(n, TRUE).pc = "returned"

\* C1: whenever split_name returns, a name without a word gives the
\* explicitly-empty record and any other name gives a record whose last
\* part is not empty, in all three forms.
C1_LastNeverEmpty ==
    Returned => IF NoWord(name) THEN blank ELSE ~blank /\ parts.last # <<>>

\* C2: split_name never raises in non-strict mode, and in strict mode it
\* raises nothing but InvalidName for one of the four violations.
C2_OnlyInvalidName ==
    Raised => strict_mode /\ error \in InvalidNameKinds

\* C3: a well-formed name with no comma that scans to exactly two words
\* w0, w1 gives first = [w0], von = [], last = [w1], jr = [].
C3_TwoWords ==
    (Returned /\ ~blank /\ NoComma(name) /\ WellFormed(name)
        /\ Len(sections) = 1 /\ Len(sections[1]) = 2)
    => parts = [first |-> <<sections[1][1]>>, von |-> <<>>,
                last |-> <<sections[1][2]>>, jr |-> <<>>]

\* A lowercase word followed by a caseless one has been split in
\* non-strict mode.
C3_Witness ==
    /\ Returned /\ ~strict_mode /\ NoComma(name) /\ WellFormed(name)
    /\ Len(sections) = 1 /\ Len(sections[1]) = 2
    /\ cases[1] = <<0, -1>>
    /\ parts.first = <<sections[1][1]>>

\* The positions of the words of a section with the given case tag.
Tagged(cs, tag) == {i \in 1..Len(cs) : cs[i] = tag}

\* The largest element of a non-empty set of numbers.
Max(S) == CHOOSE i \in S : \A j \in S : j <= i

\* A comma form has been assigned: two or three sections were scanned.
CommaForm == Returned /\ ~blank /\ Len(sections) \in {2, 3}

\* C4: in a name with two or three sections the first section is split by
\* case: one word, no lowercase word, or a lowercase last word make the
\* whole section last; otherwise von runs up to and including the last
\* lowercase word and last is the rest.  Caseless words are not lowercase.
C4_VonLast ==
    CommaForm =>
        LET sec  == sections[1]
            lows == Tagged(cases[1], 0)
        IN IF Len(sec) <= 1 \/ lows = {} \/ Len(sec) \in lows
           THEN parts.von = <<>> /\ parts.last = sec
           ELSE /\ parts.von = SubSeq(sec, 1, Max(lows))
                /\ parts.last = SubSeq(sec, Max(lows) + 1, Len(sec))

\* A first section "lowercase, caseless" has been split into von = the
\* lowercase word and last = the caseless word.
C4_Witness ==
    /\ CommaForm
    /\ cases[1] = <<0, -1>>
    /\ parts.von = <<sections[1][1]>>
    /\ parts.last = <<sections[1][2]>>

\* Form 1 with more than two words, the second of which is no initial
\* with a period, has been assigned.
LongPlain ==
    /\ Returned /\ ~blank /\ NoComma(name)
    /\ Len(sections) = 1 /\ Len(sections[1]) > 2
    /\ ~(Len(sections[1][2]) = 2 /\ sections[1][2][2] = ".")

\* The k-th from last element of a set of numbers with at least k elements.
FromLast(S, k) == CHOOSE i \in S : Cardinality({j \in S : j > i}) = k - 1

LongPlainCode ==
    /\ Returned /\ ~blank /\ NoComma(name)
    /\ Len(sections) = 1 /\ Len(sections[1]) > 2
    /\ sections[1][2][2] # "."

RECURSIVE TraceFrom(_, _, _)
\* The states a call goes through from s on, s included.
TraceFrom(n, strict, s) ==
    IF s.pc \in {"returned", "raised"} THEN <<s>>
    ELSE <<s>> \o TraceFrom(n, strict, Step(n, strict, s))

\* The states of the call splitname(n, strict).
Trace(n, strict) == TraceFrom(n, strict, InitScan)

\* The call is over.
Done == Returned \/ Raised

\* What a finished call gives its caller: the exception, the empty record
\* or the parts.
Outcome(s) ==
    [raised |-> s.pc = "raised", error |-> s.error, blank |-> s.blank, parts |-> s.parts]

\* The steps of the non-strict scan of n that read a comma at level 0.
CommaSteps(n) ==
    LET tr == Trace(n, FALSE)
    IN {i \in 1..Len(tr) : IsEndOfWord(n, tr[i]) /\ CharOf(n, tr[i]) = ","}

\* The steps of the non-strict scan of n that read a closing brace at
\* level 0.
UnmatchedSteps(n) ==
    LET tr == Trace(n, FALSE)
    IN {i \in 1..Len(tr) : IsCloseBrace(n, tr[i]) /\ tr[i].level = 0}

\* The level at which the non-strict scan of n reaches the end of the input
\* (-1 if it never does).
FinalLevel(n) ==
    LET tr   == Trace(n, FALSE)
        ends == {i \in 1..Len(tr) : IsEndOfInput(n, tr[i])}
    IN IF ends = {} THEN -1 ELSE tr[CHOOSE i \in ends : TRUE].level

RECURSIVE WordCount(_)
\* The number of words in a list of sections.
WordCount(ss) == IF ss = <<>> THEN 0 ELSE Len(Head(ss)) + WordCount(Tail(ss))

\* The words of a part or section, as a set.
WordsOf(ws) == {ws[i] : i \in 1..Len(ws)}

\* The words the non-strict scan of n puts into the third section after
\* reading the third comma.
ExcessWords(n) ==
    LET tr    == Trace(n, FALSE)
        third == FromLast(CommaSteps(n), Cardinality(CommaSteps(n)) - 2)
        had   == Len(tr[third + 1].sections[3])
        final == tr[Len(tr)].sections
        sec   == IF Len(final) = 3 THEN final[3] ELSE <<>>
    IN SubSeq(sec, had + 1, Len(sec))

\* C6: a name with more than two commas outside braces raises InvalidName
\* (too many commas) in strict mode; in non-strict mode a record of at most
\* three sections is returned, every word after the third or a later comma
\* is in last, and no word is dropped.  (Stated for the names whose scan
\* reaches the end of the input and, in strict mode, meets no unmatched
\* brace.)
C6_ExcessIntoLast ==
    (Done /\ Cardinality(CommaSteps(name)) > 2 /\ FinalLevel(name) >= 0
          /\ (strict_mode => UnmatchedSteps(name) = {})) =>
        IF strict_mode THEN Raised /\ error = "TooManyCommas"
        ELSE /\ Returned
             /\ Len(sections) <= 3
             /\ WordsOf(ExcessWords(name)) \subseteq WordsOf(parts.last)
             /\ Len(parts.first) + Len(parts.von) + Len(parts.last) + Len(parts.jr)
                    = WordCount(sections)

\* C7: a name with a closing brace at level 0 raises InvalidName (unmatched
\* brace) in strict mode; in non-strict mode it is parsed without raising,
\* the level stays 0 and each such brace puts one opening brace at the
\* start of the word being scanned.  (Stated, in strict mode, for the names
\* with at most two commas.)
C7_UnmatchedBrace ==
    (Done /\ UnmatchedSteps(name) # {}
          /\ (strict_mode => Cardinality(CommaSteps(name)) <= 2)) =>
        IF strict_mode THEN Raised /\ error = "UnmatchedBrace"
        ELSE /\ Returned
             /\ LET tr == Trace(name, FALSE)
                IN \A i \in UnmatchedSteps(name) :
                      /\ tr[i + 1].level = 0
                      /\ tr[i + 1].word = <<"{">> \o Fetch(name, tr[i]).word \o <<"}">>

\* C8: a name whose scan ends at level n > 0 raises InvalidName
\* (unterminated brace) in strict mode; in non-strict mode n closing braces
\* are appended to the final word, the word is flushed into the last open
\* section and a record is returned.  (Stated, in strict mode, for the names
\* with no unmatched brace and at most two commas.)
C8_UnterminatedBrace ==
    (Done /\ FinalLevel(name) > 0 /\ (strict_mode => UnmatchedSteps(name) = {})
          /\ (strict_mode => Cardinality(CommaSteps(name)) <= 2)) =>
        IF strict_mode THEN Raised /\ error = "UnterminatedBrace"
        ELSE LET tr == Trace(name, FALSE)
                 e  == CHOOSE i \in 1..Len(tr) : IsEndOfInput(name, tr[i])
                 w  == tr[e].word \o Braces(tr[e].level)
                 ss == tr[e + 1].sections
             IN /\ ss[Len(ss)] = Append(tr[e].sections[Len(ss)], w)
                /\ Returned /\ ~blank

\* The position of the last comma character of n (0 if there is none).
LastComma(n) ==
    LET cs == {i \in 1..Len(n) : n[i] = ","}
    IN IF cs = {} THEN 0 ELSE Max(cs)

\* n without its last comma character.
DeleteLastComma(n) == SubSeq(n, 1, LastComma(n) - 1) \o SubSeq(n, LastComma(n) + 1, Len(n))

\* The non-strict scan of n reaches the end of the input with one or two
\* commas read and no word in the final section.
TrailingEmptySection(n) ==
    LET tr   == Trace(n, FALSE)
        ends == {i \in 1..Len(tr) : IsEndOfInput(n, tr[i])}
    IN /\ ends # {}
       /\ UnmatchedSteps(n) = {}
       /\ Cardinality(CommaSteps(n)) \in {1, 2}
       /\ LET s == tr[CHOOSE i \in ends : TRUE]
          IN s.level = 0 /\ s.word = <<>> /\ s.sections[Len(s.sections)] = <<>>

\* C9: a name with a comma whose final section has no word raises
\* InvalidName (trailing comma) in strict mode; in non-strict mode the
\* result is that of the same name with its final comma deleted, also
\* when the name ends in two commas.
C9_TrailingComma ==
    (Done /\ TrailingEmptySection(name)) =>
        IF strict_mode THEN Raised /\ error = "TrailingComma"
        ELSE Outcome(Cur) = Outcome(splitname(DeleteLastComma(name), FALSE))

\* n is one balanced brace group: it opens with a brace and the scan stays
\* above level 0 until its last character, which brings it back to 0.
BalancedGroup(n) ==
    LET tr == Trace(n, FALSE)
    IN /\ Len(n) >= 2 /\ n[1] = "{"
       /\ \A i \in 1..Len(tr) :
            /\ tr[i].pc # "raised"
            /\ (AtChar(n, tr[i]) /\ tr[i].pos > 1) => tr[i].level > 0
            /\ IsEndOfInput(n, tr[i]) => tr[i].level = 0

\* C10: at a level above 0 every character read is appended to the current
\* word unchanged and no word or section is ended, so a name that is one
\* balanced brace group gives one word, the name itself, as last.
C10_InsideBraces ==
    /\ [][(pc = "scan" /\ level > 0 /\ pc' = "scan") =>
            /\ word' = word \o SubSeq(name, pos, pos' - 1)
            /\ sections' = sections
            /\ cases' = cases]_vars
    /\ []((Returned /\ BalancedGroup(name)) =>
            (~blank /\ parts = [first |-> <<>>, von |-> <<>>,
                                last |-> <<name>>, jr |-> <<>>]))

\* A brace group holding a comma and a whitespace character has been
\* returned as the one word of last.
C10_Witness ==
    /\ Returned /\ BalancedGroup(name)
    /\ \E i \in 1..Len(name) : name[i] = ","
    /\ \E i \in 1..Len(name) : name[i] \in whitespace
    /\ parts.last = <<name>>

\* The parts a registered tuple stands for: a preset that is the empty
\* string is an empty part.
PresetParts(name_t) ==
    [first |-> IF name_t[1] = <<>> THEN <<>> ELSE <<name_t[1]>>,
     von |-> IF name_t[2] = <<>> THEN <<>> ELSE <<name_t[2]>>,
     last |-> IF name_t[3] = <<>> THEN <<>> ELSE <<name_t[3]>>,
     jr |-> IF name_t[4] = <<>> THEN <<>> ELSE <<name_t[4]>>]

\* C11: a name whose whitespace-normalized form is a key of the registry is
\* returned, in both modes and without raising, as the preset parts of that
\* key, an empty preset being an empty part.
C11_RegistryPreset ==
    (Done /\ Normalize(name) \in GroupingKeys) =>
        /\ Returned /\ ~blank
        /\ parts = PresetParts(GroupingValue(Normalize(name)))

\* ------------------------------------------------- the other functions ----

\* No splitname call is under way.
NoScan ==
    /\ name = <<>> /\ strict_mode = TRUE
    /\ sections = InitScan.sections /\ cases = InitScan.cases
    /\ word = InitScan.word /\ case = InitScan.case /\ level = InitScan.level
    /\ bracestart = InitScan.bracestart /\ controlseq = InitScan.controlseq
    /\ specialchar = InitScan.specialchar /\ pos = InitScan.pos
    /\ error = InitScan.error /\ blank = InitScan.blank
    /\ parts = InitScan.parts

\* The start of a call of op on arg.
InitCall ==
    /\ NoScan
    /\ pc = "call" /\ ret = <<>>
    /\ NoSearch

\* The call of f is to be made.
Calling(f) == pc = "call" /\ op = f

\* return v
Return(v) ==
    /\ pc' = "done" /\ ret' = v
    /\ UNCHANGED <<name, strict_mode, sections, cases, word, case, level,
                   bracestart, controlseq, specialchar, pos, error, blank,
                   parts, search, op, arg>>

\* The call of f has returned.
Called(f) == pc = "done" /\ op = f

RECURSIVE Concat(_)
\* "".join(ss)
Concat(ss) == IF ss = <<>> THEN <<>> ELSE ss[1] \o Concat(Tail(ss))

\* d.get(k, [])
Get(d, k) == IF k \in DOMAIN d THEN d[k] ELSE <<>>

\* A variant of join_names_parts that joins the words of the first name
\* with no space between them.
join_names_parts_FirstUnspaced(name_parts) ==
    [first |-> Concat(Get(name_parts, "first")),
     von |-> PyJoin(Get(name_parts, "von")),
     last |-> PyJoin(Get(name_parts, "last")),
     jr |-> PyJoin(Get(name_parts, "jr"))]

\* bibfmt.join_names_parts
join_names_parts(name_parts) ==
    [first |-> PyJoin(Get(name_parts, "first")),
     von |-> PyJoin(Get(name_parts, "von")),
     last |-> PyJoin(Get(name_parts, "last")),
     jr |-> PyJoin(Get(name_parts, "jr"))]

\* A variant of name_parts_to_str that puts a space before every non-empty
\* part, whether there is a first name or not.
name_parts_to_str_AlwaysSpace(name_parts) ==
    LET Pre(x) == IF x # <<>> THEN Sp \o x ELSE x
    IN name_parts.first \o Pre(name_parts.von) \o Pre(name_parts.last)
                        \o Pre(name_parts.jr)

\* bibfmt.name_parts_to_str, on the strings join_names_parts made.
name_parts_to_str(name_parts) ==
    LET first == name_parts.first
        previous == first # <<>>
        von == IF previous /\ name_parts.von # <<>>
               THEN Sp \o name_parts.von ELSE name_parts.von
        last == IF previous /\ name_parts.last # <<>>
                THEN Sp \o name_parts.last ELSE name_parts.last
        jr == IF previous /\ name_parts.jr # <<>>
              THEN Sp \o name_parts.jr ELSE name_parts.jr
    IN first \o von \o last \o jr

\* authfmt.dict_name_to_str, which joins the words itself.
dict_name_to_str(n) ==
    LET first == PyJoin(Get(n, "first"))
        von0 == PyJoin(Get(n, "von"))
        last0 == PyJoin(Get(n, "last"))
        jr0 == PyJoin(Get(n, "jr"))
        previous == first # <<>>
        von == IF previous /\ von0 # <<>> THEN Sp \o von0 ELSE von0
        last == IF previous /\ last0 # <<>> THEN Sp \o last0 ELSE last0
        jr == IF previous /\ jr0 # <<>> THEN Sp \o jr0 ELSE jr0
    IN first \o von \o last \o jr

\* The words a part of a structured name is made of.
PartWords == {<<"A">>, <<"b", "c">>}

\* The parts: no word, the one empty word of a registry preset, one or two
\* words.
WordLists ==
    {<<>>, << <<>> >>} \cup {<<w>> : w \in PartWords}
                       \cup {<<v, w>> : v, w \in PartWords}

PartKeys == {"first", "von", "last", "jr"}

\* The structured names: some or all of the four keys, each with its words.
NameDicts == UNION {[D -> WordLists] : D \in SUBSET PartKeys}

InitJoin ==
    /\ InitCall
    /\ op \in {"name_parts_to_str", "dict_name_to_str"}
    /\ arg \in NameDicts

\* name_parts_to_str(join_names_parts(arg)), as bibfmt formats a name.
NamePartsToStr ==
    Calling("name_parts_to_str") /\ Return(name_parts_to_str(join_names_parts(arg)))

DictNameToStr == Calling("dict_name_to_str") /\ Return(dict_name_to_str(arg))

NextJoin == NamePartsToStr \/ DictNameToStr

SpecJoin == InitJoin /\ [][NextJoin]_vars

\* The non-empty strings of ss joined by single spaces.
RECURSIVE JoinNonEmpty(_)
JoinNonEmpty(ss) ==
    IF ss = <<>> THEN <<>>
    ELSE LET rest == JoinNonEmpty(Tail(ss))
         IN IF ss[1] = <<>> THEN rest
            ELSE IF rest = <<>> THEN ss[1] ELSE ss[1] \o Sp \o rest

\* C12: the joined name is first, von, last and jr, each its words joined by
\* single spaces, with one space before each non-empty von, last and jr
\* exactly when first is non-empty; with an empty first the parts follow one
\* another with no space between them and the result has no leading space.
C12_Join ==
    (Called("name_parts_to_str") \/ Called("dict_name_to_str")) =>
        LET ps == <<PyJoin(Get(arg, "first")), PyJoin(Get(arg, "von")),
                    PyJoin(Get(arg, "last")), PyJoin(Get(arg, "jr"))>>
        IN IF ps[1] # <<>>
           THEN ret = JoinNonEmpty(ps)
           ELSE /\ ret = Concat(ps)
                /\ ret # <<>> => ret[1] # " "

\* A name with a two-word first name, no von, a last name and a jr has been
\* joined, with one space before last and jr and none for the empty von.
C12_Witness ==
    /\ Called("name_parts_to_str")
    /\ arg = [first |-> << <<"A">>, <<"b", "c">> >>, von |-> <<>>,
              last |-> << <<"A">> >>, jr |-> << <<"b", "c">> >>]
    /\ ret = <<"A", " ", "b", "c", " ", "A", " ", "b", "c">>

\* ------------------------------------------------ formatting a split name ----

\* name_parts_to_str(join_names_parts(splitted_name)) on the record a
\* splitname call returned ({} for a name without a word).
FormatName ==
    /\ pc = "returned"
    /\ pc' = "formatted"
    /\ ret' = name_parts_to_str(join_names_parts(IF blank THEN <<>> ELSE parts))
    /\ UNCHANGED <<name, strict_mode, sections, cases, word, case, level,
                   bracestart, controlseq, specialchar, pos, error, blank,
                   parts, search, op, arg>>

NextFormat == Next \/ FormatName

SpecFormat == Init /\ [][NextFormat]_vars

\* The split name has been formatted.
Formatted == pc = "formatted"

RECURSIVE SplitOn(_, _, _, _)
\* The maximal runs of characters of n outside seps, from position i on.
SplitOn(n, seps, i, cur) ==
    IF i > Len(n) THEN (IF cur = <<>> THEN <<>> ELSE <<cur>>)
    ELSE IF n[i] \in seps
    THEN (IF cur = <<>> THEN <<>> ELSE <<cur>>) \o SplitOn(n, seps, i + 1, <<>>)
    ELSE SplitOn(n, seps, i + 1, Append(cur, n[i]))

\* n with its runs of separators collapsed to one space and its ends trimmed.
NormalizeSeparators(n) == PyJoin(SplitOn(n, whitespace, 1, <<>>))

\* Every word of the scan has a case: none is caseless.
Unambiguous == \A i \in 1..Len(cases) : Tagged(cases[i], -1) = {}

RECURSIVE OuterWords(_, _, _, _)
\* The words of n from position i on, cur being the word read so far at
\* brace level lvl: only whitespace outside braces separates words, and a
\* backslash takes the character after it into the word unless that
\* character is whitespace.
OuterWords(n, i, lvl, cur) ==
    LET flush == IF cur = <<>> THEN <<>> ELSE <<cur>>
    IN IF i > Len(n) THEN flush
       ELSE IF n[i] = "\\" /\ i < Len(n) /\ n[i + 1] \notin whitespace
       THEN OuterWords(n, i + 2, lvl, cur \o <<n[i], n[i + 1]>>)
       ELSE IF n[i] = "{" THEN OuterWords(n, i + 1, lvl + 1, Append(cur, n[i]))
       ELSE IF n[i] = "}" /\ lvl > 0
       THEN OuterWords(n, i + 1, lvl - 1, Append(cur, n[i]))
       ELSE IF n[i] \in whitespace /\ lvl = 0
       THEN flush \o OuterWords(n, i + 1, lvl, <<>>)
       ELSE OuterWords(n, i + 1, lvl, Append(cur, n[i]))

\* n with its runs of separators outside braces collapsed to one space and
\* its ends trimmed.
NormalizeOuterSeparators(n) == PyJoin(OuterWords(n, 1, 0, <<>>))

\* The name is in the "First von Last" form and goes through the scanner:
\* it has no comma outside braces and is not a registered name.
ScannedPlain(n) == CommaSteps(n) = {} /\ Normalize(n) \notin GroupingKeys

WHOLE_NAMES == {<<"T", "h", "e", " ", "S", "T", "R", "E", "A", "M", " ", "G", "r", "o", "u", "p">>}

\* data.SPLITED_NAMES: the <<first, von, last, jr>> tuples whose first name is
\* left as written.
SPLITED_NAMES ==
    { <<<<"C", "h", ".">>, <<>>, <<"G", "o", "l", "l", "e", "r">>, <<>>>>,
      <<<<"C", "h", "r", ".">>, <<>>, <<"W", "a", "l", "t", "h", "e", "r">>, <<>>>>,
      <<<<"H", ".", "-", "J", ".">>, <<>>, <<"O", "h", "l", "b", "a", "c", "h">>, <<>>>>,
      <<<<"M", "e", ".">>, <<>>, <<"B", "i", "e", "n", "v", "e", "n", "u">>, <<>>>>,
      <<<<"P", ".", "H", ".">>, <<>>, <<"S", "c", "h", "m", "i", "t", "t">>, <<>>>>,
      <<<<"S", "t", ".">>, <<>>, <<"H", "{", "\\", "\"", "o", "}", "l", "l", "d", "o", "b", "l", "e", "r">>, <<>>>>,
      <<<<"T", "h", ".">>, <<>>, <<"N", "i", "e", "l", "s", "e", "n">>, <<>>>>,
      <<<<"V", ".", "S", ".">>, <<>>, <<"S", "u", "b", "r", "a", "h", "m", "a", "n", "i", "a", "n">>, <<>>>> }

\* The characters a first name is looked at by: its first two.
Prefix2(n) == {n[i] : i \in 1..(IF Len(n) < 2 THEN Len(n) ELSE 2)}

\* bibfmt.format_first_name (bibrecfmt has the same function)
format_first_name(n) ==
    IF Len(n) > 2 /\ "{" \notin Prefix2(n) /\ "\\" \notin Prefix2(n)
    THEN <<n[1], ".">>
    ELSE n

\* authfmt.format_first_name
authfmt_format_first_name(n) ==
    IF Len(n) > 2 /\ ~(n[1] = "{" /\ n[2] = "\\")
    THEN <<n[1], ".">>
    ELSE n

\* raise e
RaiseCall(e) ==
    /\ pc' = "raised" /\ error' = e
    /\ UNCHANGED <<name, strict_mode, sections, cases, word, case, level,
                   bracestart, controlseq, specialchar, pos, blank, parts,
                   search, op, arg, ret>>

\* The longest first name given to format_first_name.
MaxFirstLen == 4

\* The first names: every string of at most MaxFirstLen of these characters.
FirstNames == UNION {[1..m -> {"A", "b", ".", "{", "\\"}] : m \in 0..MaxFirstLen}

InitFirst ==
    /\ InitCall
    /\ \/ op \in {"bibfmt.format_first_name", "authfmt.format_first_name"}
          /\ arg \in FirstNames
       \/ op = "authfmt.format_name_dict" /\ arg \in NameDicts

FormatFirstName ==
    Calling("bibfmt.format_first_name") /\ Return(format_first_name(arg))

AuthfmtFormatFirstName ==
    Calling("authfmt.format_first_name") /\ Return(authfmt_format_first_name(arg))

\* authfmt.format_name_dict reads its local new_name before assigning it.
FormatNameDict ==
    Calling("authfmt.format_name_dict") /\ RaiseCall("UnboundLocalError")

\* One name of format_names_and_generate_id that is in WHOLE_NAMES: it is
\* its own last name and is not split.
WholeName ==
    /\ pc = "lookup" /\ strict_mode /\ name \in WHOLE_NAMES
    /\ parts' = [last |-> <<name>>]
    /\ pc' = "abbreviated"
    /\ UNCHANGED <<name, strict_mode, sections, cases, word, case, level,
                   bracestart, controlseq, specialchar, pos, error, blank,
                   search, op, arg, ret>>

\* One name of format_names_and_generate_id after splitname (called in its
\* default strict mode) has returned: the words of the first name are joined
\* and abbreviated, unless the joined parts are in SPLITED_NAMES.
AbbreviateFirst ==
    /\ pc = "returned" /\ strict_mode
    /\ pc' = "abbreviated"
    /\ parts' =
         IF blank THEN parts
         ELSE LET first_name == PyJoin(parts.first)
                  splitted_name_tuple ==
                      <<first_name, PyJoin(parts.von), PyJoin(parts.last),
                        PyJoin(parts.jr)>>
              IN IF splitted_name_tuple \notin SPLITED_NAMES
                 THEN [parts EXCEPT !.first = <<format_first_name(first_name)>>]
                 ELSE parts
    /\ UNCHANGED <<name, strict_mode, sections, cases, word, case, level,
                   bracestart, controlseq, specialchar, pos, error, blank,
                   search, op, arg, ret>>

NextFirst ==
    \/ name \notin WHOLE_NAMES /\ Next
    \/ WholeName
    \/ AbbreviateFirst
    \/ FormatFirstName
    \/ AuthfmtFormatFirstName
    \/ FormatNameDict

SpecFirst == (Init \/ InitFirst) /\ [][NextFirst]_vars

\* abbreviate_first as the claim defines it.
ClaimedAbbreviation(f) ==
    IF Len(f) > 2 /\ ~(f[1] = "{" /\ f[2] = "\\") THEN <<f[1], ".">> ELSE f

\* C14: the first-name abbreviation returns the first character and a
\* period for a name of more than 2 characters that does not begin with a
\* brace followed by a backslash, and the name unchanged otherwise; name
\* formatting applies it once to the space-joined first name, so the first
\* part of a formatted name is exactly one word.
C14_AbbreviateFirst ==
    /\ (Called("bibfmt.format_first_name") \/ Called("authfmt.format_first_name")) =>
           ret = ClaimedAbbreviation(arg)
    /\ (op = "authfmt.format_name_dict" /\ pc # "call" /\ "first" \in DOMAIN arg) =>
           /\ pc = "done"
           /\ ret.first = <<ClaimedAbbreviation(PyJoin(arg.first))>>
    /\ (pc = "abbreviated" /\ ~blank /\ "first" \in DOMAIN parts) =>
           parts.first =
               <<ClaimedAbbreviation(PyJoin(splitname(name, TRUE).parts.first))>>

\* ------------------------------------------------------ the surname key ----

Digits == {"0", "1", "2", "3", "4", "5", "6", "7", "8", "9"}

\* str.lower() on one character.
lower(c) ==
    CASE c = "A" -> "a" [] c = "B" -> "b" [] c = "C" -> "c" [] c = "D" -> "d"
      [] c = "E" -> "e" [] c = "F" -> "f" [] c = "G" -> "g" [] c = "H" -> "h"
      [] c = "I" -> "i" [] c = "J" -> "j" [] c = "K" -> "k" [] c = "L" -> "l"
      [] c = "M" -> "m" [] c = "N" -> "n" [] c = "O" -> "o" [] c = "P" -> "p"
      [] c = "Q" -> "q" [] c = "R" -> "r" [] c = "S" -> "s" [] c = "T" -> "t"
      [] c = "U" -> "u" [] c = "V" -> "v" [] c = "W" -> "w" [] c = "X" -> "x"
      [] c = "Y" -> "y" [] c = "Z" -> "z"
      [] OTHER -> c

\* x.lower()
Lowered(x) == [i \in 1..Len(x) |-> lower(x[i])]

\* The characters NON_ALPHANUMERIC_RE leaves: [0-9a-zA-Z].
IsAlnum(c) == c \in Digits \cup Upper \cup Lower

\* NON_ALPHANUMERIC_RE.sub("", x.lower())
alpha_numeric_lower(x) == SelectSeq(Lowered(x), IsAlnum)

\* [NON_ALPHANUMERIC_RE.sub("", x.lower()) for x in xs]
AlphaNumericLowerAll(xs) == [i \in 1..Len(xs) |-> alpha_numeric_lower(xs[i])]

\* y[:l]
Prefix(y, l) == SubSeq(y, 1, IF Len(y) < l THEN Len(y) ELSE l)

\* bibfmt.generate_key_from_surnames
generate_key_from_surnames(surnames) ==
    LET NonEmpty(x) == x # <<>>
        s1 == AlphaNumericLowerAll(SelectSeq(surnames, NonEmpty))
        kept == SelectSeq(s1, NonEmpty)
        s2 == [i \in 1..Len(kept) |-> kept[i] \o <<"_", "_", "_">>]
        l == IF Len(s2) = 2 THEN 3 ELSE 2
    IN IF s1 = <<>> THEN <<>>
       ELSE IF Len(s1) = 1 THEN s1[1]
       ELSE Concat([i \in 1..Len(s2) |-> Prefix(s2[i], l)])

\* The longest list of surnames.
MaxSurnames == 3

\* The surnames: the empty string, one that normalizes to it, one of two
\* alphanumeric characters and two longer ones.
Surnames == {<<>>, <<"-">>, <<"A", "-", "b">>, Cao, Tacla}

SurnameLists == UNION {[1..m -> Surnames] : m \in 0..MaxSurnames}

InitKey == InitCall /\ op = "generate_key_from_surnames" /\ arg \in SurnameLists

GenerateKey ==
    Calling("generate_key_from_surnames") /\ Return(generate_key_from_surnames(arg))

NextKey == GenerateKey

SpecKey == InitKey /\ [][NextKey]_vars

\* The key the claim gives a list of surnames, each normalized surname
\* padded with underscores (as the specification's example has it) or not.
ClaimedKey(surnames, padded) ==
    LET Pad(x) == IF padded THEN x \o <<"_", "_", "_">> ELSE x
        l == IF Len(surnames) = 2 THEN 3 ELSE 2
        s == AlphaNumericLowerAll(surnames)
    IN IF s = <<>> THEN <<>>
       ELSE IF Len(s) = 1 THEN s[1]
       ELSE Concat([i \in 1..Len(s) |-> Prefix(Pad(s[i]), l)])

\* C15: the key of no surname is the empty string, the key of one surname is
\* that surname normalized, the key of two is the 3-character prefix of each
\* and the key of three or more the 2-character prefix of each, in input
\* order, for every list, surnames that normalize to the empty string
\* included (stated here for the lists that hold no empty string).
C15_SurnameKey ==
    (Called("generate_key_from_surnames") /\ \A i \in 1..Len(arg) : arg[i] # <<>>) =>
        \/ ret = ClaimedKey(arg, TRUE)
        \/ ret = ClaimedKey(arg, FALSE)

\* ------------------------------------------------------ similar names ----

\* The characters RE_NON_ALPHANUMERIC_WITH_SPACES_AND_DASHES leaves:
\* [ 0-9a-zA-Z-].
IsAlnumSpaceDash(c) == IsAlnum(c) \/ c \in {" ", "-"}

\* RE_NON_ALPHANUMERIC_WITH_SPACES_AND_DASHES.sub("", pw.lower())
alpha_numeric_lower_with_spaces(pw) == SelectSeq(Lowered(pw), IsAlnumSpaceDash)

\* [alpha_numeric_lower_with_spaces(pw) for pw in last]
WithSpacesAll(last) ==
    [i \in 1..Len(last) |-> alpha_numeric_lower_with_spaces(last[i])]

\* [w for pw in last for w in pw.split() if w]
RECURSIVE SplitWords(_)
SplitWords(last) ==
    IF last = <<>> THEN <<>>
    ELSE PySplit(last[1], 1, <<>>) \o SplitWords(Tail(last))

\* xs[-k:] for 0 <= k <= len(xs): the last k elements, but the whole list for
\* k = 0, since -0 is 0.
PySuffix(xs, k) == IF k = 0 THEN xs ELSE SubSeq(xs, Len(xs) - k + 1, Len(xs))

\* name_dict_similar with the first parts compared only when name1 has one.
name_dict_similar_FirstOfName1(name1, name2) ==
    IF /\ "first" \in DOMAIN name1
       /\ ("first" \notin DOMAIN name2 \/ name1.first # name2.first)
    THEN FALSE
    ELSE LET last1 == SplitWords(WithSpacesAll(name1.last))
             last2 == SplitWords(WithSpacesAll(name2.last))
             l1 == Len(last1)
             l2 == Len(last2)
             short_last == IF l1 < l2 THEN last1 ELSE last2
             long_last == IF l1 >= l2 THEN last1 ELSE last2
         IN short_last = PySuffix(long_last, Len(short_last))

\* match.name_dict_similar, for names that have a last part.
name_dict_similar(name1, name2) ==
    IF /\ "first" \in DOMAIN name1 /\ "first" \in DOMAIN name2
       /\ name1.first # name2.first
    THEN FALSE
    ELSE LET last1 == SplitWords(WithSpacesAll(name1.last))
             last2 == SplitWords(WithSpacesAll(name2.last))
             l1 == Len(last1)
             l2 == Len(last2)
             short_last == IF l1 < l2 THEN last1 ELSE last2
             long_last == IF l1 >= l2 THEN last1 ELSE last2
         IN short_last = PySuffix(long_last, Len(short_last))

\* dblp-bib.format_name on the record splitname returned: the first name
\* becomes the initial of its first word and every word is normalized.
format_name(splitted_name) ==
    LET abbreviated ==
            IF splitted_name.first # <<>>
            THEN [splitted_name EXCEPT !.first = << <<splitted_name.first[1][1], ".">> >>]
            ELSE splitted_name
    IN [k \in DOMAIN abbreviated |-> AlphaNumericLowerAll(abbreviated[k])]

\* dblp-bib.similar_names on two formatted names.
similar_names(name1f, name2f) ==
    IF name1f = name2f THEN TRUE
    ELSE IF name1f.first # name2f.first THEN FALSE
    ELSE LET l1 == Len(name1f.last)
             l2 == Len(name2f.last)
             short_last == IF l1 < l2 THEN name1f.last ELSE name2f.last
             long_last == IF l1 >= l2 THEN name1f.last ELSE name2f.last
         IN short_last = PySuffix(long_last, Len(short_last))

\* The most words in the last part of a compared name.
MaxLastWords == 2

\* The words of the last parts: two that normalize to the same word, one
\* that normalizes to nothing, one that holds a space.
LastWords ==
    {Cao, <<"c", "a", "o", ".">>, Son, <<".">>, Cao \o Sp \o Son}

\* The compared names: with or without a first part, and a last part.
ComparedNames ==
    LET lasts == UNION {[1..m -> LastWords] : m \in 0..MaxLastWords}
        firsts == {<<>>, << <<"J", ".">> >>, << <<"A", ".">> >>}
    IN {[last |-> l] : l \in lasts}
       \cup {[first |-> f, last |-> l] : f \in firsts, l \in lasts}

\* The name strings dblp-bib compares.
ComparedStrings ==
    { Juan \o Sp \o Cao, <<"J", ".", " ">> \o Cao, Cao, <<",", "J", ".">>,
      <<"J", ".", " ">> \o Son \o Sp \o Cao, <<"A", ".", " ">> \o Cao,
      <<"J", ".", " ", "c", "a", "o", ".">>, <<"J", ".", " ", ".">>,
      Son \o <<",", " ", "J", ".">>, <<"d", "e", " ">> \o Cao \o <<",", " ">> \o Juan }

InitSimilar ==
    /\ InitCall
    /\ \/ op = "name_dict_similar" /\ arg \in ComparedNames \X ComparedNames
       \/ op = "similar_names" /\ arg \in ComparedStrings \X ComparedStrings

NameDictSimilar ==
    Calling("name_dict_similar") /\ Return(name_dict_similar(arg[1], arg[2]))

\* similar_names(name1, name2): both names are split (in the default strict
\* mode) and formatted, then compared.
SimilarNames ==
    /\ Calling("similar_names")
    /\ LET s1 == splitname(arg[1], TRUE)
           s2 == splitname(arg[2], TRUE)
       IN IF s1.pc = "raised" THEN RaiseCall(s1.error)
          ELSE IF s2.pc = "raised" THEN RaiseCall(s2.error)
          ELSE IF s1.blank /\ s2.blank THEN Return(TRUE)
          ELSE IF s1.blank \/ s2.blank THEN RaiseCall("KeyError")
          ELSE Return(similar_names(format_name(s1.parts), format_name(s2.parts)))

NextSimilar == NameDictSimilar \/ SimilarNames

SpecSimilar == InitSimilar /\ [][NextSimilar]_vars

\* The last k elements of xs.
LastK(xs, k) == SubSeq(xs, Len(xs) - k + 1, Len(xs))

\* name_similar as the claim defines it, on two names' first parts (<<>> for
\* a name without one) and normalized surname words.
ClaimedSimilar(hasfirst1, first1, last1, hasfirst2, first2, last2) ==
    IF hasfirst1 /\ hasfirst2 /\ first1 # first2 THEN FALSE
    ELSE IF Len(last1) < Len(last2) THEN last1 = LastK(last2, Len(last1))
    ELSE last2 = LastK(last1, Len(last2))

\* C16: two names are not similar when both have a first part and the first
\* parts differ; otherwise they are similar exactly when the shorter of the
\* two normalized surname word sequences is the trailing sub-sequence of its
\* length of the longer, sequences of equal length being equal.
C16_NameSimilar ==
    /\ Called("name_dict_similar") =>
         ret = ClaimedSimilar("first" \in DOMAIN arg[1], Get(arg[1], "first"),
                   SplitWords(WithSpacesAll(arg[1].last)),
                   "first" \in DOMAIN arg[2], Get(arg[2], "first"),
                   SplitWords(WithSpacesAll(arg[2].last)))
    /\ Called("similar_names") =>
         LET f1 == format_name(splitname(arg[1], TRUE).parts)
             f2 == format_name(splitname(arg[2], TRUE).parts)
         IN ret = ClaimedSimilar(TRUE, f1.first, f1.last, TRUE, f2.first, f2.last)

\* --------------------------------------------------- similar entries ----

\* k in e
Has(e, k) == k \in DOMAIN e

\* A value a function returned, or the exception it raised.
Value(v) == [error |-> "none", value |-> v]

Raises(e) == [error |-> e, value |-> <<>>]

RECURSIVE PySplitSep(_, _, _, _)
\* s.split(sep) from position i on, cur being the piece read so far: the
\* pieces between the occurrences of sep, empty pieces included.
PySplitSep(s, sep, i, cur) ==
    IF i > Len(s) THEN <<cur>>
    ELSE IF i + Len(sep) - 1 <= Len(s) /\ SubSeq(s, i, i + Len(sep) - 1) = sep
    THEN <<cur>> \o PySplitSep(s, sep, i + Len(sep), <<>>)
    ELSE PySplitSep(s, sep, i + 1, Append(cur, s[i]))

\* s.startswith(p)
StartsWith(s, p) == Len(s) >= Len(p) /\ SubSeq(s, 1, Len(p)) = p

RECURSIVE Letters(_, _)
\* [a-zA-Z]+ from position i of s on: the number of letters it takes.
Letters(s, i) ==
    IF i <= Len(s) /\ s[i] \in Upper \cup Lower THEN 1 + Letters(s, i + 1) ELSE 0

\* RE_ID.match(s): group(1), the letters before the first digit, when s
\* starts with letters followed by a digit; <<>> when there is no match.
RE_ID_group1(s) ==
    LET n == Letters(s, 1)
    IN IF n >= 1 /\ n < Len(s) /\ s[n + 1] \in Digits THEN SubSeq(s, 1, n) ELSE <<>>

\* match.similar_venue, conf_mapping being CONFIG["conf_mapping"].
similar_venue(entry, dblp_entry, conf_mapping) ==
    LET venue_type == entry.ENTRYTYPE
    IN IF venue_type \notin {"inproceedings", "article"} THEN Value(FALSE)
       ELSE IF ~Has(dblp_entry, "ID") THEN Value(FALSE)
       ELSE LET ids == PySplitSep(dblp_entry.ID, <<"$">>, 1, <<>>)
            IN IF Len(ids) < 3 THEN Raises("IndexError")
               ELSE LET dblp_id == ids[3]
                        path == PySplitSep(dblp_id, <<"/">>, 1, <<>>)
                    IN IF Len(path) < 2 THEN Raises("IndexError")
                       ELSE IF venue_type = "inproceedings"
                       THEN IF \/ ~Has(entry, "crossref")
                               \/ ~StartsWith(dblp_id, <<"D", "B", "L", "P", ":", "c", "o", "n", "f", "/">>)
                            THEN Value(FALSE)
                            ELSE LET venue_id == RE_ID_group1(entry.crossref)
                                 IN IF venue_id = <<>> THEN Value(FALSE)
                                    ELSE IF dblp_id \in DOMAIN conf_mapping
                                    THEN IF path[2] \in DOMAIN conf_mapping
                                         THEN Value(Lowered(venue_id) = Lowered(conf_mapping[path[2]]))
                                         ELSE Raises("KeyError")
                                    ELSE Value(Lowered(venue_id) = Lowered(path[2]))
                       ELSE Value(FALSE)

\* authfmt.split_names_to_strs: its body reads name, which is neither its
\* parameter (names) nor a global.
split_names_to_strs(names) == Raises("NameError")

\* authfmt.format_name_dict: its body reads the local new_name before
\* assigning it.
format_name_dict(n) == Raises("UnboundLocalError")

\* The first error of a list of results ("none" if there is none).
RECURSIVE FirstError(_)
FirstError(rs) ==
    IF rs = <<>> THEN "none"
    ELSE IF rs[1].error # "none" THEN rs[1].error ELSE FirstError(Tail(rs))

\* format_name_dict(splitname(name)): splitname runs in its default strict
\* mode.
FormattedAuthor(n) ==
    LET s == splitname(n, TRUE)
    IN IF s.pc = "raised" THEN Raises(s.error)
       ELSE format_name_dict(IF s.blank THEN <<>> ELSE s.parts)

\* alpha_numeric_lower_with_spaces on a structured name.
NormalizedDict(a) ==
    [k \in DOMAIN a |-> WithSpacesAll(a[k])]

\* d in name_mapping and c in name_mapping[d]
Aliased(name_mapping, c, d) == d \in DOMAIN name_mapping /\ c \in name_mapping[d]

\* The last two statements of are_similar_entries: 2 when every pair of
\* authors is identical or aliased, 1 when every pair is similar, else 0.
AuthorVerdict(authors, dblp_authors, author_strs, dblp_author_strs, name_mapping) ==
    IF \A i \in 1..Len(authors) :
          \/ NormalizedDict(authors[i]) = NormalizedDict(dblp_authors[i])
          \/ Aliased(name_mapping, author_strs[i], dblp_author_strs[i])
    THEN Value(2)
    ELSE IF \A i \in 1..Len(authors) :
              IF Has(authors[i], "last") /\ Has(dblp_authors[i], "last")
              THEN name_dict_similar(authors[i], dblp_authors[i])
              ELSE FALSE
         THEN Value(1)
         ELSE Value(0)

\* A variant of PassesGate that does not compare the years.
PassesGate_AnyYear(entry, dblp_entry) ==
    /\ Has(entry, "ENTRYTYPE") /\ Has(dblp_entry, "ENTRYTYPE")
    /\ entry.ENTRYTYPE = dblp_entry.ENTRYTYPE
    /\ Has(entry, "title") /\ Has(dblp_entry, "title")
    /\ alpha_numeric_lower(entry.title) = alpha_numeric_lower(dblp_entry.title)

\* The first four tests of are_similar_entries: both entries have the same
\* type, the same normalized title and the same year.
PassesGate(entry, dblp_entry) ==
    /\ Has(entry, "ENTRYTYPE") /\ Has(dblp_entry, "ENTRYTYPE")
    /\ entry.ENTRYTYPE = dblp_entry.ENTRYTYPE
    /\ Has(entry, "title") /\ Has(dblp_entry, "title")
    /\ alpha_numeric_lower(entry.title) = alpha_numeric_lower(dblp_entry.title)
    /\ Has(entry, "year") /\ Has(dblp_entry, "year")
    /\ entry.year = dblp_entry.year

\* match.are_similar_entries, from the author lists on.
CompareAuthors(entry, dblp_entry, name_mapping) ==
    LET author_strs == split_names_to_strs(entry.author)
        dblp_author_strs == split_names_to_strs(dblp_entry.author)
    IN IF author_strs.error # "none" THEN author_strs
       ELSE IF dblp_author_strs.error # "none" THEN dblp_author_strs
       ELSE IF Len(author_strs.value) # Len(dblp_author_strs.value) THEN Value(0)
       ELSE LET authors == [i \in 1..Len(author_strs.value) |->
                               FormattedAuthor(author_strs.value[i])]
                dblp_authors == [i \in 1..Len(dblp_author_strs.value) |->
                                    FormattedAuthor(dblp_author_strs.value[i])]
                Values(rs) == [i \in 1..Len(rs) |-> rs[i].value]
            IN IF FirstError(authors) # "none" THEN Raises(FirstError(authors))
               ELSE IF FirstError(dblp_authors) # "none"
               THEN Raises(FirstError(dblp_authors))
               ELSE AuthorVerdict(Values(authors), Values(dblp_authors),
                                  author_strs.value, dblp_author_strs.value,
                                  name_mapping)

\* match.are_similar_entries
are_similar_entries(entry, dblp_entry, name_mapping, match_venue, conf_mapping) ==
    IF ~PassesGate(entry, dblp_entry) THEN Value(0)
    ELSE LET venue == IF match_venue
                      THEN similar_venue(entry, dblp_entry, conf_mapping)
                      ELSE Value(TRUE)
         IN IF venue.error # "none" THEN venue
            ELSE IF ~venue.value THEN Value(0)
            ELSE IF ~Has(entry, "author") \/ ~Has(dblp_entry, "author") THEN Value(0)
            ELSE CompareAuthors(entry, dblp_entry, name_mapping)

\* The entry types, titles (the first two have the same normalized form) and
\* years of the compared entries.
EntryTypes == {"article", "inproceedings", "book"}

Titles == {<<"A", "b">>, <<"a", "-", "B">>, <<"C">>}

Years == {"2019", "2020"}

JCao == <<"J", ".", " ">> \o Cao

And == <<" ", "a", "n", "d", " ">>

\* The author fields: one or two names, in full or with an initial.
AuthorFields ==
    { Juan \o Sp \o Cao, JCao, Cao, <<"A", ".", " ">> \o Cao,
      <<"J", ".", " ">> \o Son \o Sp \o Cao,
      JCao \o And \o <<"A", ".", " ">> \o Son,
      Juan \o Sp \o Cao \o And \o <<"A", ".", " ">> \o Son,
      Juan \o Sp \o Cao \o <<"\n", "a", "n", "d", " ">> \o <<"A", ".", " ">> \o Son }

\* An external record of the conference ai, one of the journal ai, and two
\* whose ID has too few parts.
DblpIds ==
    { <<"a", "$", "b", "$", "D", "B", "L", "P", ":", "c", "o", "n", "f", "/", "a", "i", "/", "c">>,
      <<"a", "$", "b", "$", "D", "B", "L", "P", ":", "j", "o", "u", "r", "n", "a", "l", "s", "/", "a", "i", "/", "c">>,
      <<"a", "$", "b", "$", "c">>,
      <<"a", "$", "b">> }

\* Cross-reference keys: of the conference ai, of another and without a
\* number.
Crossrefs == {<<"a", "i", "1">>, <<"A", "i", "2", "a">>, <<"c", "a", "1">>, <<"a", "i">>}

\* CONFIG["conf_mapping"]: the table is configuration; it is empty, or maps
\* a venue id or a whole external id to a conference id.
ConfMappings ==
    { <<>>,
      [k \in {<<"a", "i">>} |-> <<"c", "a">>],
      [k \in {<<"D", "B", "L", "P", ":", "c", "o", "n", "f", "/", "a", "i", "/", "c">>} |-> <<"c", "a">>] }

\* The alias tables: none, or one that lists "Juan Cao" under "J. Cao".
NameMappings == { <<>>, [d \in {JCao} |-> {Juan \o Sp \o Cao}] }

\* The entry with the fields of r named in present.
MakeEntry(r, present) == [k \in present |-> r[k]]

\* Pairs of entries with every combination of type, title and year, present
\* or not, and the same author and venue.
GatePairs ==
    LET Fields == {"ENTRYTYPE", "title", "year"}
        Es == {MakeEntry([ENTRYTYPE |-> t, title |-> ti, year |-> y, author |-> JCao,
                          crossref |-> <<"a", "i", "1">>,
                          ID |-> <<"a", "$", "b", "$", "D", "B", "L", "P", ":", "c", "o", "n", "f", "/", "a", "i", "/", "c">>],
                         p \cup {"author", "crossref", "ID"}) :
                 t \in EntryTypes, ti \in Titles, y \in Years, p \in SUBSET Fields}
    IN Es \X Es

\* Pairs of entries with the same type, title and year, every combination of
\* author fields, present or not, and the same venue.
AuthorPairs ==
    LET E(t, a, p) ==
            MakeEntry([ENTRYTYPE |-> t, title |-> <<"A", "b">>, year |-> "2020",
                       author |-> a, crossref |-> <<"a", "i", "1">>,
                       ID |-> <<"a", "$", "b", "$", "D", "B", "L", "P", ":", "c", "o", "n", "f", "/", "a", "i", "/", "c">>],
                      p \cup {"ENTRYTYPE", "title", "year", "crossref", "ID"})
    IN {<<E(t, a, p), E(t, b, q)>> :
            t \in {"article", "inproceedings"}, a \in AuthorFields, b \in AuthorFields,
            p \in SUBSET {"author"}, q \in SUBSET {"author"}}

\* Pairs of entries with the same type, title, year and author and every
\* combination of cross-reference and external ID, present or not.
VenuePairs ==
    LET E(t, c, i, p) ==
            MakeEntry([ENTRYTYPE |-> t, title |-> <<"A", "b">>, year |-> "2020",
                       author |-> JCao, crossref |-> c, ID |-> i],
                      p \cup {"ENTRYTYPE", "title", "year", "author"})
    IN {<<E(t, c, <<>>, p), E(t, <<>>, i, q)>> :
            t \in EntryTypes, c \in Crossrefs, i \in DblpIds,
            p \in SUBSET {"crossref"}, q \in SUBSET {"ID"}}

\* The journals of the articles.
Journals == {<<"a", "i">>, <<"c", "a">>}

\* Pairs of articles with the same title, year and author, every combination
\* of journals, present or not, the external one being of the journal ai.
JournalPairs ==
    LET E(j, p) ==
            MakeEntry([ENTRYTYPE |-> "article", title |-> <<"A", "b">>,
                       year |-> "2020", author |-> JCao, journal |-> j,
                       ID |-> <<"a", "$", "b", "$", "D", "B", "L", "P", ":", "j", "o", "u", "r", "n", "a", "l", "s", "/", "a", "i", "/", "c">>],
                      p \cup {"ENTRYTYPE", "title", "year", "author", "ID"})
    IN {<<E(j, p), E(k, q)>> :
            j \in Journals, k \in Journals,
            p \in SUBSET {"journal"}, q \in SUBSET {"journal"}}

InitEntries ==
    /\ InitCall
    /\ op = "are_similar_entries"
    /\ \E pair \in GatePairs \cup AuthorPairs \cup VenuePairs \cup JournalPairs,
          nm \in NameMappings, mv \in BOOLEAN, cm \in ConfMappings :
          arg = [entry |-> pair[1], dblp_entry |-> pair[2], name_mapping |-> nm,
                 match_venue |-> mv, conf_mapping |-> cm]

AreSimilarEntries ==
    /\ Calling("are_similar_entries")
    /\ LET r == are_similar_entries(arg.entry, arg.dblp_entry, arg.name_mapping,
                                    arg.match_venue, arg.conf_mapping)
       IN IF r.error # "none" THEN RaiseCall(r.error) ELSE Return(r.value)

NextEntries == AreSimilarEntries

SpecEntries == InitEntries /\ [][NextEntries]_vars

\* The fields of the two compared entries are the same and present.
SameField(k) ==
    /\ Has(arg.entry, k) /\ Has(arg.dblp_entry, k)
    /\ arg.entry[k] = arg.dblp_entry[k]

\* C17: two records with the same type, title and year whose authors have
\* the same surname, one side with the full first name and the other with
\* its initial, are weakly similar (1), not similar (2).
C17_InitialVsFull ==
    (/\ op = "are_similar_entries" /\ pc # "call"
     /\ SameField("ENTRYTYPE") /\ SameField("title") /\ SameField("year")
     /\ Has(arg.entry, "author") /\ Has(arg.dblp_entry, "author")
     /\ {arg.entry.author, arg.dblp_entry.author} = {Juan \o Sp \o Cao, JCao}
     /\ ~arg.match_venue /\ arg.name_mapping = <<>>)
    => (pc = "done" /\ ret = 1)

\* The call of are_similar_entries is over.
Compared == op = "are_similar_entries" /\ pc # "call"

\* The two entries differ in field k, or one of them lacks it; Norm is the
\* normalization the field is compared under.
Differ(k, Norm(_)) ==
    \/ ~Has(arg.entry, k) \/ ~Has(arg.dblp_entry, k)
    \/ Norm(arg.entry[k]) # Norm(arg.dblp_entry[k])

\* C18: two records whose entry types differ, whose titles differ after
\* normalization to lowercase alphanumerics, or whose years differ, or one of
\* which lacks one of these fields, are not similar (0), whatever their
\* author lists, the alias table and the venue option.
C18_Gate ==
    LET Same(x) == x
    IN (Compared /\ (\/ Differ("ENTRYTYPE", Same)
                     \/ Differ("title", alpha_numeric_lower)
                     \/ Differ("year", Same)))
       => (pc = "done" /\ ret = 0)

\* Two records of the same type, year and author whose titles differ have
\* been compared, with an alias table and without venue matching, and found
\* not similar.
C18_Witness ==
    /\ Compared /\ pc = "done" /\ ret = 0
    /\ SameField("ENTRYTYPE") /\ SameField("year") /\ SameField("author")
    /\ Has(arg.entry, "title") /\ Has(arg.dblp_entry, "title")
    /\ alpha_numeric_lower(arg.entry.title) # alpha_numeric_lower(arg.dblp_entry.title)
    /\ ~arg.match_venue /\ arg.name_mapping # <<>>

\* s.replace("\n", " ")
ReplaceNewlines(s) == [i \in 1..Len(s) |-> IF s[i] = "\n" THEN " " ELSE s[i]]

\* The number of names in an author field: its pieces between " and ".
AuthorCount(s) == Len(PySplitSep(ReplaceNewlines(s), And, 1, <<>>))

\* The two entries pass the gate of type, title and year, and of venue when
\* venues are matched, and both have authors.
PassGates ==
    /\ PassesGate(arg.entry, arg.dblp_entry)
    /\ arg.match_venue =>
         LET v == similar_venue(arg.entry, arg.dblp_entry, arg.conf_mapping)
         IN v.error = "none" /\ v.value
    /\ Has(arg.entry, "author") /\ Has(arg.dblp_entry, "author")

\* C19: for two records that pass the gate the verdict is always one of 0, 1
\* and 2, and it is 0 when the author lists differ in length (the part of
\* the claimed rule that does not depend on how two names compare).
C19_Verdict ==
    (Compared /\ PassGates) =>
        /\ pc = "done"
        /\ ret \in {0, 1, 2}
        /\ AuthorCount(arg.entry.author) # AuthorCount(arg.dblp_entry.author) => ret = 0

\* C20: a backslash read by the scanner consumes the character c after it.
\* If c is not whitespace both are appended to the current word and c is not
\* read as a brace, a comma or a separator: the level and the sections stay
\* as they are. If c is whitespace and the level is 0, the backslash stays in
\* the current word and c ends that word as any separator does.
C20_Escape ==
    [][(pc = "scan" /\ pos < Len(name) /\ name[pos] = "\\") =>
          LET c == name[pos + 1]
          IN IF c \notin whitespace
             THEN /\ word' = word \o <<"\\", c>>
                  /\ level' = level /\ sections' = sections /\ cases' = cases
                  /\ pos' = pos + 2 /\ pc' = "scan"
             ELSE level = 0 =>
                  /\ sections' = AppendToLast(sections, Append(word, "\\"))
                  /\ word' = <<>>
                  /\ level' = 0
                  /\ pos' = pos + 2 /\ pc' = "scan"]_vars

\* An escaped comma has been read at level 0 after a word character: it is
\* in the current word and the name still has one section.
C20_Witness ==
    /\ pc = "scan" /\ pos = 4 /\ level = 0
    /\ SubSeq(name, 1, 3) = <<"A", "\\", ",">>
    /\ word = <<"A", "\\", ",">>
    /\ Len(sections) = 1

\* ------------------------------------------------- formatting a file ----

\* The words of a split name joined into <<first, von, last, jr>>.
splitted_name_tuple(p) ==
    <<PyJoin(p.first), PyJoin(p.von), PyJoin(p.last), PyJoin(p.jr)>>

\* The body of the loop of format_names_and_generate_id on a name that is
\* not in WHOLE_NAMES, s being what splitname did on it: the parts appended
\* to splitted_names and the people added to modified_people, or the
\* exception splitname raised.
SplittedParts(s) ==
    LET first_name == PyJoin(s.parts.first)
        formated_first_name == format_first_name(first_name)
    IN IF s.pc = "raised" THEN Raises(s.error)
       ELSE IF s.blank THEN Value([parts |-> <<>>, modified |-> {}])
       ELSE IF splitted_name_tuple(s.parts) \notin SPLITED_NAMES
       THEN Value([parts |-> [s.parts EXCEPT !.first = <<formated_first_name>>],
                   modified |-> IF first_name # formated_first_name
                                THEN {splitted_name_tuple(s.parts)} ELSE {}])
       ELSE Value([parts |-> s.parts, modified |-> {}])

\* The body of the loop of format_names_and_generate_id on one name.
SplittedName(n) ==
    IF n \in WHOLE_NAMES THEN Value([parts |-> [last |-> <<n>>], modified |-> {}])
    ELSE SplittedParts(splitname(n, TRUE))

RECURSIVE JoinAnd(_)
\* ' and '.join(ss)
JoinAnd(ss) ==
    IF ss = <<>> THEN <<>>
    ELSE IF Len(ss) = 1 THEN ss[1]
    ELSE ss[1] \o <<" ", "a", "n", "d", " ">> \o JoinAnd(Tail(ss))

\* x.replace("\n", " ")
NewlinesToSpaces(x) == [i \in 1..Len(x) |-> IF x[i] = "\n" THEN " " ELSE x[i]]

\* The end of format_names_and_generate_id, splitted being what its loop
\* made of each name: the formatted names, the modified people and the key
\* made of the surnames, or the exception of the first name splitname
\* rejects.
FormatedNames(splitted) ==
    IF FirstError(splitted) # "none" THEN Raises(FirstError(splitted))
    ELSE LET splitted_names ==
                 [i \in 1..Len(splitted) |-> join_names_parts(splitted[i].value.parts)]
         IN Value([formated_names |->
                       JoinAnd([i \in 1..Len(splitted) |->
                                   name_parts_to_str(splitted_names[i])]),
                   modified_people |->
                       UNION {splitted[i].value.modified : i \in 1..Len(splitted)},
                   key |-> generate_key_from_surnames(
                               [i \in 1..Len(splitted) |-> splitted_names[i].last])])

\* x.replace("\n", " ").split(' and ')
SplitAnd(x) == PySplitSep(NewlinesToSpaces(x), <<" ", "a", "n", "d", " ">>, 1, <<>>)

\* The loop of format_names_and_generate_id over names.
SplittedNames(names) == [i \in 1..Len(names) |-> SplittedName(names[i])]

\* bibfmt.format_names_and_generate_id
format_names_and_generate_id(x) == FormatedNames(SplittedNames(SplitAnd(x)))

\* string.ascii_lowercase
ascii_lowercase ==
    <<"a", "b", "c", "d", "e", "f", "g", "h", "i", "j", "k", "l", "m", "n",
      "o", "p", "q", "r", "s", "t", "u", "v", "w", "x", "y", "z">>

RECURSIVE NthSuffix(_)
\* The k-th suffix _new_id tries: the letters a..z, then aa, ab, ... in the
\* order of itertools.product for the sizes 1, 2, ...
NthSuffix(k) ==
    IF k <= 26 THEN <<ascii_lowercase[k]>>
    ELSE NthSuffix((k - 1) \div 26) \o <<ascii_lowercase[((k - 1) % 26) + 1]>>

\* year[-2:] if len(year) > 2 else year
LastTwo(year) == IF Len(year) > 2 THEN SubSeq(year, Len(year) - 1, Len(year)) ELSE year

\* bibfmt._new_id: the first id_base + year + suffix that is not in
\* existing_ids.
new_id(id_base, year, existing_ids) ==
    LET Id(k) == id_base \o LastTwo(year) \o NthSuffix(k)
        k == CHOOSE j \in 1..(Cardinality(existing_ids) + 1) :
                 /\ Id(j) \notin existing_ids
                 /\ \A i \in 1..(j - 1) : Id(i) \in existing_ids
    IN Id(k)
\* data.EXCLUDE_IDS
EXCLUDE_IDS ==
    { <<"c", "a", "f", "a", "g", "e", "i", "a", "k", "a", "k", "r", "l", "e", "m", "a", "r", "i", "s", "c", "2", "0", "a">>,
      <<"h", "e", "l", "m", "e", "r", "t", "r", "s", "+", "1", "1">>,
      <<"i", "c", "l", "p", "-", "t", "c", "2", "0">>,
      <<"l", "o", "k", "a", "s", "e", "b", "o", "g", "e", "k", "o", "b", "r", "h", "o", "r", "i", "a", "n", "w", "e", "s", "m", "f", "o", "0", "0", "a">>,
      <<"s", "t", "s", "t", "f", "e", "k", "o", "m", "a", "w", "a", "l", "i", "a", "t", "c", "o", "k", "u", "b", "a", "b", "o", "1", "9", "b">>,
      <<"b", "a", "r", "a", "l", "t", "t", "0", "2">>,
      <<"a", "g", "c", "a", "f", "a", "p", "e", "p", "e", "v", "i", "2", "4", "a">>,
      <<"g", "e", "k", "a", "z", "a", "2", "0", "a">>,
      <<"h", "a", "c", "j", "u", "e", "0", "4", "a">>,
      <<"h", "a", "n", "s", "s", "o", "n", "9", "9", "a">>,
      <<"p", "r", "i", "s", "m", "o", "9", "3">>,
      <<"v", "o", "g", "r", "d", "a", "b", "i", "c", "r", "o", "r", "l", "a", "l", "a", "g", "i", "a", "c", "k", "l", "j", "o", "1", "4", "a">>,
      <<"b", "i", "b", "e", "l", ":", "c", "1", "1">>,
      <<"p", "o", "o", "g", "o", "e", "8", "6">>,
      <<"s", "c", "h", "n", "e", "e", "b", "e", "r", "g", "e", "r", "8", "9", "a">>,
      <<"t", "o", "r", "n", "q", "u", "i", "s", "t", "0", "6", "a">>,
      <<"c", "a", "v", "1", "2">>,
      <<"l", "w", "d", "a", "1", "8">>,
      <<"l", "w", "d", "a", "2", "2">>,
      <<"p", "a", "d", "l", "1", "9">>,
      <<"v", "l", "d", "b", "0", "6">>,
      <<"r", "u", "l", "e", "m", "l", "2", "2">>,
      <<"d", "a", "t", "a", "l", "o", "g", "1", "0">> }

\* FIELDS_TO_REMOVE
FIELDS_TO_REMOVE == {"bibsource", "biburl", "timestamp"}

DBLP == <<"D", "B", "L", "P", ":">>

\* The people of an entry, formatted: new_entry['author'] and
\* new_entry['editor'].
FormattedPeople(kept) ==
    [k \in {"author", "editor"} \cap DOMAIN kept |->
        format_names_and_generate_id(kept[k])]

\* The exception formatting the people raised first, if any.
PeopleError(people) ==
    IF Has(people, "author") /\ people.author.error # "none" THEN people.author.error
    ELSE IF Has(people, "editor") THEN people.editor.error
    ELSE "none"

\* new_entry of _format_bib_entry, kept being the entry without the fields
\* to remove and people its formatted people: an entry of the external
\* source that has authors with a surname key, and a year, gets a new id.
NewEntry(entry, kept, people, existing_ids) ==
    IF PeopleError(people) # "none" THEN Raises(PeopleError(people))
    ELSE Value([k \in DOMAIN kept |->
                  IF k \in {"author", "editor"} THEN people[k].value.formated_names
                  ELSE IF /\ k = "ID" /\ Has(kept, "author")
                          /\ people.author.value.key # <<>>
                          /\ StartsWith(kept.ID, DBLP) /\ Has(entry, "year")
                  THEN new_id(people.author.value.key, entry.year, existing_ids)
                  ELSE kept[k]])

\* The entry without the fields to remove.
Kept(entry) == [k \in DOMAIN entry \ FIELDS_TO_REMOVE |-> entry[k]]

\* bibfmt._format_bib_entry on an entry without journal, with no database
\* of proceedings (procs_db is None).
format_bib_entry(entry, existing_ids) ==
    NewEntry(entry, Kept(entry), FormattedPeople(Kept(entry)), existing_ids)

\* The entries of a file: most MaxEntries of them.
MaxEntries == 3

\* The ids of the entries: two of the external source, two of the form the
\* formatter generates and one that is excluded from formatting.
EntryIds ==
    { DBLP \o <<"x">>, DBLP \o <<"y">>,
      <<"c", "a", "o", "2", "0", "a">>, <<"c", "a", "o", "2", "0", "b">>,
      <<"c", "a", "v", "1", "2">> }

\* The people and years of the entries: the same surname in the same year
\* and in the same two last digits, two surnames, no author and no year.
EntryFields ==
    { [author |-> Cao, year |-> <<"2", "0", "2", "0">>],
      [author |-> JCao, year |-> <<"1", "9", "2", "0">>],
      [author |-> Juan \o Sp \o Cao \o And \o Tacla, year |-> <<"2", "0">>],
      [year |-> <<"2", "0", "2", "0">>],
      [author |-> Cao] }

\* The entries of the files.
BibEntries ==
    { [k \in {"ID", "ENTRYTYPE"} \cup DOMAIN f |->
          IF k = "ID" THEN id ELSE IF k = "ENTRYTYPE" THEN "article" ELSE f[k]] :
      id \in EntryIds, f \in EntryFields }

\* The ids of a sequence of entries are pairwise distinct.
DistinctIds(entries) ==
    \A i, j \in 1..Len(entries) : i # j => entries[i].ID # entries[j].ID

\* The files: sequences of entries whose ids are pairwise distinct.
Bibliographies ==
    {db \in UNION {[1..m -> BibEntries] : m \in 0..MaxEntries} : DistinctIds(db)}

\* format_bib_entries has read the file; arg is db.entries, ret is
\* new_entries.
InitBib ==
    /\ InitCall
    /\ op = "format_bib_entries"
    /\ arg \in Bibliographies

\* existing_ids = set(entry["ID"] for entry in db.entries)
existing_ids == {arg[i].ID : i \in 1..Len(arg)}

\* One turn of the loop of format_bib_entries over db.entries: an entry
\* whose id is excluded is kept, another one is formatted.
FormatBibEntry ==
    /\ Calling("format_bib_entries")
    /\ Len(ret) < Len(arg)
    /\ LET entry == arg[Len(ret) + 1]
       IN IF Has(entry, "ID") /\ entry.ID \in EXCLUDE_IDS
          THEN /\ ret' = Append(ret, entry)
               /\ UNCHANGED <<pc, error>>
          ELSE LET r == format_bib_entry(entry, existing_ids)
               IN IF r.error # "none"
                  THEN /\ pc' = "raised" /\ error' = r.error
                       /\ UNCHANGED ret
                  ELSE /\ ret' = Append(ret, r.value)
                       /\ UNCHANGED <<pc, error>>
    /\ UNCHANGED <<name, strict_mode, sections, cases, word, case, level,
                   bracestart, controlseq, specialchar, pos, blank, parts,
                   search, op, arg>>

\* The end of the loop: db.entries = new_entries and the file is written.
WriteBib ==
    /\ Calling("format_bib_entries")
    /\ Len(ret) = Len(arg)
    /\ pc' = "done"
    /\ UNCHANGED <<name, strict_mode, sections, cases, word, case, level,
                   bracestart, controlseq, specialchar, pos, error, blank,
                   parts, search, op, arg, ret>>

NextBib == FormatBibEntry \/ WriteBib

SpecBib == InitBib /\ [][NextBib]_vars

\* The entry at position i was given a generated id.
Generated(i) == arg[i].ID # ret[i].ID

\* C21: after format_bib_entries has processed a file whose ids are pairwise
\* distinct, the ids it writes are pairwise distinct: a generated id differs
\* from every id of the file and from every id generated before it.
C21_DistinctIds ==
    (Called("format_bib_entries") /\ DistinctIds(arg)) =>
        /\ DistinctIds(ret)
        /\ \A i \in 1..Len(ret) : Generated(i) =>
              /\ ret[i].ID \notin existing_ids
              /\ \A j \in 1..(i - 1) : Generated(j) => ret[j].ID # ret[i].ID

\* ----------------------------------------------------- the venue gate ----

\* The conference id of an external record: the second piece of the path
\* of its key DBLP:conf/<id>/..., <<>> when the key is not of a conference.
ConferenceOf(dblp_entry) ==
    IF ~Has(dblp_entry, "ID") THEN <<>>
    ELSE LET ids == PySplitSep(dblp_entry.ID, <<"$">>, 1, <<>>)
         IN IF Len(ids) < 3 \/ ~StartsWith(ids[3], DBLP \o <<"c", "o", "n", "f", "/">>)
            THEN <<>>
            ELSE PySplitSep(ids[3], <<"/">>, 1, <<>>)[2]

\* The two compared records are of the same conference.
SameConference ==
    /\ Has(arg.entry, "crossref")
    /\ RE_ID_group1(arg.entry.crossref) # <<>>
    /\ RE_ID_group1(arg.entry.crossref) = ConferenceOf(arg.dblp_entry)

\* The two compared records name the same journal.
SameJournal == SameField("journal")

\* The venue gate of the call accepts the pair.
VenueAccepted ==
    similar_venue(arg.entry, arg.dblp_entry, arg.conf_mapping) = Value(TRUE)

\* C22: with venue matching, the venue gate accepts two inproceedings whose
\* conference ids (of the cross-reference key, of the external record) are
\* equal, and two articles that name the same journal; two articles with the
\* same journal, type, title, year and authors are similar (2).
C22_VenueGate ==
    (Compared /\ arg.match_venue /\ PassesGate(arg.entry, arg.dblp_entry)) =>
        /\ (/\ arg.entry.ENTRYTYPE = "inproceedings" /\ arg.conf_mapping = <<>>
            /\ SameConference) => VenueAccepted
        /\ (arg.entry.ENTRYTYPE = "article" /\ SameJournal) => VenueAccepted
        /\ (/\ arg.entry.ENTRYTYPE = "article" /\ SameJournal
            /\ SameField("author")) => (pc = "done" /\ ret = 2)

\* ------------------------------------- searching the external source ----

\* The attempts for one entry: for _ in range(1, 10)
MaxAttempts == 9

\* The wait after the first rate-limited attempt for an entry.
FastTimeout == 60

\* A variant of Timeout that always waits the time the server asked for.
Timeout_RetryAfter(fast, retry) == retry

\* The wait before the next attempt after a rate-limited one: timeout.
Timeout(fast, retry) == IF fast THEN FastTimeout ELSE retry

\* Most entries of a search.
MaxLookups == 2

\* Most results of a request: the response has none, one or two entries.
MaxResults == 2

\* The Retry-After values of the rate-limited responses, in seconds.
RetryAfters == {1, 120}

\* The responses of the external source: found with some results, rate
\* limited with a Retry-After header, or another error.
Responses ==
    {[status |-> 200, results |-> n] : n \in 0..MaxResults}
    \cup {[status |-> 429, retry |-> r] : r \in RetryAfters}
    \cup {[status |-> 500]}

\* The entries searched for: with a title and a year, or without.
SearchEntries ==
    { [ID |-> <<"a">>, title |-> <<"A", "b">>, year |-> "2020"],
      [ID |-> <<"b">>, title |-> <<"C">>, year |-> "2019"],
      [ID |-> <<"b">>, title |-> <<"C">>],
      [ID |-> <<"c">>, year |-> "2019"] }

\* The lists of entries searched for: their ids are pairwise distinct.
SearchLists ==
    {es \in UNION {[1..m -> SearchEntries] : m \in 0..MaxLookups} : DistinctIds(es)}

\* The i-th result for entry: its id is f'{entry["ID"]}${i}${dblp_entry["ID"]}',
\* the id of the external record being x.
Result(entry, i) ==
    [ID |-> entry.ID \o <<"$">> \o <<CHOOSE d \in Digits : d = ToString(i)>>
                     \o <<"$", "x">>]

\* dblp_bd.entries of find_dblp_entry for a response with n results.
Results(entry, n) == [i \in 1..n |-> Result(entry, i - 1)]

\* The files a previous run left: the output database, with no entry or the
\* results of a, and the list of ids without matches, empty or with b.
PreviousDatabases == {Absent, File(<<>>), File(Results([ID |-> <<"a">>], 1))}

PreviousNoMatches == {Absent, File(<<>>), File(<< <<"b">> >>)}

\* The call of dblp_search_entries on the entries in arg.
InitSearch ==
    /\ NoScan
    /\ op = "dblp_search_entries" /\ pc = "call" /\ ret = <<>>
    /\ arg \in SearchLists
    /\ new_db = <<>> /\ no_matches = <<>> /\ skip_entries = None
    /\ current = 1 /\ attempt = 1 /\ fast_retry = TRUE
    /\ slept = <<>> /\ retry_after = <<>>
    /\ path_write \in PreviousDatabases
    /\ no_matches_path \in PreviousNoMatches

\* e['ID'].split("$")[0]
SearchedId(e) == PySplitSep(e.ID, <<"$">>, 1, <<>>)[1]

\* The start of dblp_search_entries: the results and the ids without matches
\* of a previous run are read. Without an output database skip_entries is
\* None, and updating it with the ids without matches raises AttributeError.
ReadPrevious ==
    /\ Calling("dblp_search_entries")
    /\ LET db == path_write.content
           skip == IF path_write.exists
                   THEN Ids({SearchedId(db[i]) : i \in 1..Len(db)})
                   ELSE None
           ids == no_matches_path.content
       IN /\ new_db' = db
          /\ IF ~no_matches_path.exists
             THEN /\ no_matches' = <<>> /\ skip_entries' = skip
                  /\ pc' = "entries" /\ UNCHANGED error
             ELSE /\ no_matches' = ids
                  /\ IF skip.none
                     THEN /\ pc' = "raised" /\ error' = "AttributeError"
                          /\ skip_entries' = skip
                     ELSE /\ skip_entries' =
                               Ids(skip.ids \cup {ids[i] : i \in 1..Len(ids)})
                          /\ pc' = "entries" /\ UNCHANGED error
    /\ UNCHANGED <<name, strict_mode, sections, cases, word, case, level,
                   bracestart, controlseq, specialchar, pos, blank, parts,
                   op, arg, ret, current, attempt, fast_retry, slept,
                   retry_after, path_write, no_matches_path>>

\* The entry of the current turn of the loop over entries.
entry == arg[current]

\* The top of the loop over entries: an entry a previous run recorded is
\* skipped, for another one the attempts start.
NextEntry ==
    /\ op = "dblp_search_entries" /\ pc = "entries"
    /\ current <= Len(arg)
    /\ IF ~skip_entries.none /\ entry.ID \in skip_entries.ids
       THEN /\ current' = current + 1
            /\ UNCHANGED <<pc, attempt, fast_retry, slept, retry_after>>
       ELSE /\ pc' = "attempt"
            /\ fast_retry' = TRUE /\ attempt' = 1
            /\ slept' = <<>> /\ retry_after' = <<>>
            /\ UNCHANGED current
    /\ UNCHANGED <<name, strict_mode, sections, cases, word, case, level,
                   bracestart, controlseq, specialchar, pos, error, blank,
                   parts, op, arg, ret, new_db, no_matches, skip_entries,
                   path_write, no_matches_path>>

\* The attempt succeeded with new_entries: they are appended to the output
\* database, or the id to the list without matches, and the loop over the
\* attempts is left.
Success(new_entries) ==
    /\ IF new_entries # <<>>
       THEN new_db' = new_db \o new_entries /\ UNCHANGED no_matches
       ELSE no_matches' = Append(no_matches, entry.ID) /\ UNCHANGED new_db
    /\ pc' = "entries" /\ current' = current + 1
    /\ UNCHANGED <<error, attempt, fast_retry, slept, retry_after, path_write,
                   no_matches_path>>

\* The attempt was rate limited: both files are written, the loop sleeps,
\* and the next attempt follows unless this was the last one.
RateLimited(retry) ==
    /\ path_write' = File(new_db) /\ no_matches_path' = File(no_matches)
    /\ slept' = Append(slept, Timeout(fast_retry, retry))
    /\ retry_after' = Append(retry_after, retry)
    /\ fast_retry' = FALSE
    /\ IF attempt < MaxAttempts
       THEN attempt' = attempt + 1 /\ UNCHANGED <<pc, current>>
       ELSE pc' = "entries" /\ current' = current + 1 /\ UNCHANGED attempt
    /\ UNCHANGED <<error, new_db, no_matches>>

\* The attempt failed otherwise: both files are written and the exception
\* is raised again.
Failed ==
    /\ path_write' = File(new_db) /\ no_matches_path' = File(no_matches)
    /\ pc' = "raised" /\ error' = "Exception"
    /\ UNCHANGED <<new_db, no_matches, current, attempt, fast_retry, slept,
                   retry_after>>

\* One attempt for the current entry: find_dblp_entry asks the external
\* source unless the entry has no title or no year, and the loop acts on its
\* response.
Lookup ==
    /\ op = "dblp_search_entries" /\ pc = "attempt"
    /\ IF ~Has(entry, "title") \/ ~Has(entry, "year")
       THEN Success(<<>>)
       ELSE \E response \in Responses :
               IF response.status = 429 THEN RateLimited(response.retry)
               ELSE IF response.status # 200 THEN Failed
               ELSE Success(Results(entry, response.results))
    /\ UNCHANGED <<name, strict_mode, sections, cases, word, case, level,
                   bracestart, controlseq, specialchar, pos, blank, parts,
                   op, arg, ret, skip_entries>>

\* The end of dblp_search_entries: the output database is written.
WriteResults ==
    /\ op = "dblp_search_entries" /\ pc = "entries"
    /\ current > Len(arg)
    /\ path_write' = File(new_db)
    /\ pc' = "done"
    /\ UNCHANGED <<name, strict_mode, sections, cases, word, case, level,
                   bracestart, controlseq, specialchar, pos, error, blank,
                   parts, op, arg, ret, new_db, no_matches, skip_entries,
                   current, attempt, fast_retry, slept, retry_after,
                   no_matches_path>>

NextSearch == ReadPrevious \/ NextEntry \/ Lookup \/ WriteResults

SpecSearch == InitSearch /\ [][NextSearch]_vars

\* The attempts for the current entry that were rate limited so far.
Waits == Len(slept)

\* C23 as stated: the wait before each retry grows exponentially with the
\* number of consecutive rate-limited attempts for the entry, every wait
\* being at least twice the one before it.
C23_Claimed ==
    op = "dblp_search_entries" =>
        \A k \in 1..(Waits - 1) : slept[k + 1] >= 2 * slept[k]

\* C23: when successive attempts for the same entry are rate limited, the
\* wait before the first retry is 60 seconds and the wait before each later
\* retry is the Retry-After value of the rate-limited response.
C23_Amended ==
    op = "dblp_search_entries" =>
        /\ Len(retry_after) = Waits
        /\ Waits >= 1 => slept[1] = FastTimeout
        /\ \A k \in 2..Waits : slept[k] = retry_after[k]

\* Three attempts for an entry were rate limited, and the third wait was
\* shorter than the second.
C23_Witness ==
    /\ op = "dblp_search_entries" /\ pc = "attempt"
    /\ Waits = 3 /\ attempt = 4
    /\ slept = <<FastTimeout, 120, 1>>

\* The number of results for the entry with the given id in the output
\* database that are the first of their request.
InDatabase(id) ==
    Cardinality({i \in 1..Len(new_db) : new_db[i].ID = id \o <<"$", "0", "$", "x">>})

\* The number of times the id is in the list of ids without matches.
InNoMatches(id) == Cardinality({i \in 1..Len(no_matches) : no_matches[i] = id})

\* A previous run recorded the entry with the given id.
RecordedBefore(id) == ~skip_entries.none /\ id \in skip_entries.ids

\* C30: when dblp_search_entries returns normally, every entry that a
\* previous run had not recorded is recorded exactly once, in the output
\* database or in the list of ids without matches, not in both; no entry is
\* attempted more than 9 times.
C30_RecordedOnce ==
    /\ op = "dblp_search_entries" => attempt <= MaxAttempts
    /\ Called("dblp_search_entries") =>
          \A i \in 1..Len(arg) :
              ~RecordedBefore(arg[i].ID) =>
                  InDatabase(arg[i].ID) + InNoMatches(arg[i].ID) = 1

\* ---------------------------------------------------- word conservation ----

\* The name went through the scanner: it is not a key of the registry.
Scanned == Normalize(name) \notin GroupingKeys

\* Every word of the part is a non-empty string.
NoEmptyWord(part) == \A i \in 1..Len(part) : part[i] # <<>>

\* C24: on a scanned name for which split_name returns a non-empty record
\* the scanned words are partitioned among the parts in order: with one
\* section first ++ last is the section and von and jr are empty; with more
\* sections von ++ last is the first section, jr the middle one of three and
\* first the final one. No word of a part is empty.
C24_WordConservation ==
    (Returned /\ ~blank /\ Scanned) =>
        /\ IF Len(sections) = 1
           THEN /\ parts.first \o parts.last = sections[1]
                /\ parts.von = <<>> /\ parts.jr = <<>>
           ELSE /\ parts.von \o parts.last = sections[1]
                /\ parts.jr = (IF Len(sections) = 3 THEN sections[2] ELSE <<>>)
                /\ parts.first = sections[Len(sections)]
        /\ NoEmptyWord(parts.first) /\ NoEmptyWord(parts.von)
        /\ NoEmptyWord(parts.last) /\ NoEmptyWord(parts.jr)

\* A name of three sections was split into four non-empty parts.
C24_Witness ==
    /\ Returned /\ ~blank /\ Scanned
    /\ Len(sections) = 3
    /\ parts.first # <<>> /\ parts.von # <<>> /\ parts.last # <<>> /\ parts.jr # <<>>

\* ------------------------------------------------ strict and non-strict ----

\* C25: strict mode only adds rejections: on every name for which the
\* strict call returns a record, the non-strict call returns the same
\* record.
C25_StrictOnlyRejects ==
    (Returned /\ strict_mode) =>
        LET s == splitname(name, FALSE)
        IN /\ s.pc = "returned"
           /\ s.blank = blank
           /\ s.parts = parts

\* The strict call returned the parts of a comma form with a brace group.
C25_Witness ==
    /\ Returned /\ strict_mode /\ ~blank
    /\ Len(sections) = 2
    /\ name[1] = "{" /\ name[2] = "}"
    /\ parts.first # <<>> /\ parts.last # <<>>

\* ---------------------------------------------------------------------
\* Balanced braces in non-strict mode (src/bibfmt.py:219-310).

\* The brace depth after reading w from index i at depth d, a backslash
\* taking the character after it out of the count; -1 once a closing brace
\* has no opening brace before it.
RECURSIVE Depth(_, _, _)
Depth(w, i, d) ==
    IF d < 0 THEN -1
    ELSE IF i > Len(w) THEN d
    ELSE IF w[i] = "\\" THEN Depth(w, i + 2, d)
    ELSE IF w[i] = "{" THEN Depth(w, i + 1, d + 1)
    ELSE IF w[i] = "}" THEN Depth(w, i + 1, d - 1)
    ELSE Depth(w, i + 1, d)

\* Every unescaped opening brace of w has its closing brace and conversely.
Balanced(w) == Depth(w, 1, 0) = 0

\* C26: in non-strict mode every word of every part returned has balanced
\* unescaped braces; during the scan level is never negative, and a word is
\* added to a section only at level 0 or at the end of the input.
C26_Balanced ==
    /\ []((Returned /\ ~strict_mode /\ ~blank) =>
            \A p \in {"first", "von", "last", "jr"} :
                \A i \in 1..Len(parts[p]) : Balanced(parts[p][i]))
    /\ [](~strict_mode => level >= 0)
    /\ [][(~strict_mode /\ pc = "scan"
             /\ WordCount(sections') > WordCount(sections)) =>
            (level = 0 \/ pos > Len(name))]_vars

\* A non-strict scan has returned words for a name with an unmatched closing
\* brace and an opening brace left open, one of them holding the brace the
\* scan inserted and another the brace it appended.
C26_Witness ==
    /\ Returned /\ ~strict_mode /\ ~blank /\ Scanned
    /\ UnmatchedSteps(name) # {} /\ FinalLevel(name) > 0
    /\ \E p \in {"first", "von", "last", "jr"} :
          \E i \in 1..Len(parts[p]) :
              /\ Len(parts[p][i]) >= 2
              /\ parts[p][i][Len(parts[p][i])] = "}"
              /\ Balanced(parts[p][i])

\* ------------------------------------------- formatting a name list ----
\* format_names_and_generate_id on a field, and the same function on the
\* field it wrote, as check_bib applies it to a file that was formatted
\* (src/bibfmt.py:476-499, src/bibrecfmt.py:399-422 and 535-549). The
\* fields have no newline, the one character the two files treat
\* differently.

MaxFieldLen == 5

\* The author fields of one name: every string of at most MaxFieldLen of
\* these characters.
ShortFields == UNION {[1..m -> {"A", "b", ".", ",", " "}] : m \in 0..MaxFieldLen}

\* The author fields of registered names and of two names.
ListedFields ==
    { <<"T", "h", ".", " ", "N", "i", "e", "l", "s", "e", "n">>,
      <<"b", ".", " ", "A", ",", "A">>,
      <<"T", "h", "e", " ", "S", "T", "R", "E", "A", "M", " ", "G", "r", "o", "u", "p">>,
      <<"A", "b", "b", " ", "A", "b", " ", "a", "n", "d", " ", "b", ",", "A", "b", "b">>,
      <<"A", "b", ",", "A", "b", " ", "a", "n", "d", " ", "T", "h", ".", " ", "N", "i", "e", "l", "s", "e", "n">>,
      <<"{", "A", " ", "b", "}", " ", "a", "n", "d", " ", "A", "b", "b", " ", "{", "A", "}">> }

NameFields == ShortFields \cup ListedFields

InitNames ==
    /\ InitCall
    /\ op = "format_names"
    /\ arg \in NameFields

\* x[val] = format_names(x[val]), in format_bib and again in check_bib.
FormatNames ==
    /\ pc = "call" /\ op \in {"format_names", "check_bib"}
    /\ Return(format_names_and_generate_id(arg))

\* check_bib reads the field that was written.
CheckBib ==
    /\ Called("format_names") /\ ret.error = "none"
    /\ op' = "check_bib" /\ arg' = ret.value.formated_names
    /\ pc' = "call" /\ ret' = <<>>
    /\ UNCHANGED <<name, strict_mode, sections, cases, word, case, level,
                   bracestart, controlseq, specialchar, pos, error, blank,
                   parts, search>>

NextNames == FormatNames \/ CheckBib

SpecNames == InitNames /\ [][NextNames]_vars

\* C27: formatting a formatted author or editor field succeeds and returns
\* the field unchanged.
C27_Idempotent ==
    Called("check_bib") => (ret.error = "none" /\ ret.value.formated_names = arg)

\* ------------------------------------------ symmetry of name_similar ----

\* C28: name_dict_similar and similar_names give the same answer with their
\* arguments exchanged, for names with a last part, whatever the lengths of
\* the two surname sequences; a name is similar to itself.
C28_Symmetric ==
    /\ Called("name_dict_similar") =>
          /\ ret = name_dict_similar(arg[2], arg[1])
          /\ arg[1] = arg[2] => ret = TRUE
    /\ Called("similar_names") =>
          LET s1 == splitname(arg[1], TRUE)
              s2 == splitname(arg[2], TRUE)
          IN (~s1.blank /\ ~s2.blank) =>
                /\ ret = similar_names(format_name(s2.parts), format_name(s1.parts))
                /\ arg[1] = arg[2] => ret = TRUE

\* Two different names, one with a first part and one without, whose
\* surname sequences have the same length, have been found similar.
C28_Witness ==
    /\ Called("name_dict_similar")
    /\ "first" \in DOMAIN arg[1] /\ "first" \notin DOMAIN arg[2]
    /\ arg[1].first # <<>>
    /\ arg[1].last # arg[2].last
    /\ Len(SplitWords(WithSpacesAll(arg[1].last))) = Len(SplitWords(WithSpacesAll(arg[2].last)))
    /\ SplitWords(WithSpacesAll(arg[1].last)) # <<>>
    /\ ret = TRUE

\* ----------------------------------------- the alias fixed point ----
\* The loop at the end of match.py (src/match.py:229-262) over the
\* bibliography db and the external database dblp_db. ret holds the loop's
\* variables exclude_ids, name_mapping and new. Every entry has an ID and an
\* ENTRYTYPE, as every entry the parser returns has, and the IDs of a
\* database are distinct.

\* entry['ID'].split("$")[0]
IdPrefix(id) == PySplitSep(id, <<"$">>, 1, <<>>)[1]

\* The IDs of the entries of a database.
IdsOf(entries) == {entries[i].ID : i \in 1..Len(entries)}

\* db.entries_dict[id]
EntryOf(entries, id) == entries[CHOOSE i \in 1..Len(entries) : entries[i].ID = id]

\* match.compute_raw_matches: the pairs <<id, dblp_id>> of an ID of db and
\* the ID of an external entry filed under it; KeyError for an external
\* entry filed under an ID db does not have.
compute_raw_matches(db, dblp_db) ==
    IF \E d \in IdsOf(dblp_db) : IdPrefix(d) \notin IdsOf(db)
    THEN Raises("KeyError")
    ELSE Value({<<id, d>> \in IdsOf(db) \X IdsOf(dblp_db) : IdPrefix(d) = id})

\* The raw matches whose ID of db is not excluded.
Pairs(raw_matches, excluded) == {p \in raw_matches.value : p[1] \notin excluded}

\* are_similar_entries, without venue matching, on each of the pairs.
Similarity(db, dblp_db, pairs, mapping) ==
    [p \in pairs |-> are_similar_entries(EntryOf(db, p[1]), EntryOf(dblp_db, p[2]),
                                         mapping, FALSE, <<>>)]

\* similar_entries of find_similar_entries: for each ID of db that has one,
\* the external IDs of similarity 2; the exception of a comparison that
\* raised.
SimilarEntries(db, similarity) ==
    LET pairs == DOMAIN similarity
        failed == {p \in pairs : similarity[p].error # "none"}
        Similar(id) == {p[2] : p \in {q \in pairs : q[1] = id /\ similarity[q].value = 2}}
    IN IF failed # {}
       THEN Raises(similarity[CHOOSE p \in failed : TRUE].error)
       ELSE Value([id \in {i \in IdsOf(db) : Similar(i) # {}} |-> Similar(id)])

\* match.find_similar_entries without venue matching, on the raw matches.
find_similar_entries(db, dblp_db, excluded, mapping, raw_matches) ==
    IF raw_matches.error # "none" THEN raw_matches
    ELSE SimilarEntries(db, Similarity(db, dblp_db, Pairs(raw_matches, excluded),
                                       mapping))

\* The end of find_similar_editors_inproceedings, found being what
\* find_similar_entries returned: the similar entries with one external
\* match, and the editor names matched (none: the editor fields of a matched
\* pair are split by split_names_to_strs, which raises).
EditorMatches(db, dblp_db, found) ==
    IF found.error # "none" THEN found
    ELSE LET similar_entries ==
                 [id \in {i \in DOMAIN found.value : Cardinality(found.value[i]) = 1}
                     |-> found.value[id]]
             edited == {id \in DOMAIN similar_entries :
                           /\ Has(EntryOf(db, id), "editor")
                           /\ \A d \in similar_entries[id] :
                                 Has(EntryOf(dblp_db, d), "editor")}
         IN IF edited # {}
            THEN split_names_to_strs(EntryOf(db, CHOOSE id \in edited : TRUE).editor)
            ELSE Value([similar_entries |-> similar_entries,
                        editor_name_matches |-> <<>>])

\* match.find_similar_editors_inproceedings
find_similar_editors_inproceedings(db, dblp_db, excluded, mapping) ==
    EditorMatches(db, dblp_db,
                  find_similar_entries(db, dblp_db, excluded, mapping,
                                       compute_raw_matches(db, dblp_db)))

\* The body of the while loop on the loop variables st, r being what
\* find_similar_editors_inproceedings returned: the new values of the loop
\* variables, or the exception raised. An alias that is to be added is first
\* compared with format_name(k), a name match.py imports from authfmt,
\* which does not define it.
Round(st, r) ==
    IF r.error # "none" THEN r
    ELSE LET matches == r.value.editor_name_matches
             really_new == {k \in DOMAIN matches :
                               \/ k \notin DOMAIN st.name_mapping
                               \/ matches[k] # st.name_mapping[k]}
         IN IF \E k \in really_new : matches[k] # {}
            THEN Raises("NameError")
            ELSE Value([exclude_ids |->
                            st.exclude_ids \cup DOMAIN r.value.similar_entries,
                        name_mapping |-> st.name_mapping,
                        new |-> FALSE])

\* The most entries of a database.
MaxDbEntries == 2

\* The entries of db: an ID, a type, a year, with or without an author and
\* an editor.
DbEntries ==
    {MakeEntry([ID |-> i, ENTRYTYPE |-> t, title |-> <<"A", "b">>, year |-> y,
                author |-> JCao, editor |-> JCao],
               p \cup {"ID", "ENTRYTYPE", "title", "year"}) :
        i \in {<<"a">>, <<"b">>}, t \in {"inproceedings", "article"},
        y \in Years, p \in {{}, {"author", "editor"}}}

\* The external entries: filed under an ID that db may have.
DblpEntries ==
    {MakeEntry([ID |-> i \o <<"$", "1">>, ENTRYTYPE |-> "inproceedings",
                title |-> <<"A", "b">>, year |-> "2020",
                author |-> JCao, editor |-> JCao],
               p \cup {"ID", "ENTRYTYPE", "title", "year"}) :
        i \in {<<"a">>, <<"b">>}, p \in {{}, {"author", "editor"}}}

\* The databases: at most MaxDbEntries entries with distinct IDs.
Databases(entries) ==
    {es \in UNION {[1..m -> entries] : m \in 0..MaxDbEntries} :
        \A i, j \in 1..Len(es) : es[i].ID = es[j].ID => i = j}

\* The state before the while loop: the entries that are not inproceedings
\* are excluded, there is no alias and new is True. The external entries
\* are filed under IDs of db, as the search that wrote them files them.
InitAlias ==
    /\ NoScan /\ NoSearch
    /\ pc = "call" /\ op = "match"
    /\ arg \in [db : Databases(DbEntries), dblp_db : Databases(DblpEntries)]
    /\ \A d \in IdsOf(arg.dblp_db) : IdPrefix(d) \in IdsOf(arg.db)
    /\ ret = [exclude_ids |-> {arg.db[i].ID : i \in
                                  {j \in 1..Len(arg.db) :
                                      arg.db[j].ENTRYTYPE # "inproceedings"}},
              name_mapping |-> <<>>,
              new |-> TRUE]

\* One round of the while loop.
AliasRound ==
    /\ Calling("match") /\ ret.new
    /\ LET r == Round(ret, find_similar_editors_inproceedings(
                               arg.db, arg.dblp_db, ret.exclude_ids, ret.name_mapping))
       IN IF r.error # "none"
          THEN /\ pc' = "raised" /\ error' = r.error
               /\ UNCHANGED ret
          ELSE /\ ret' = r.value
               /\ UNCHANGED <<pc, error>>
    /\ UNCHANGED <<name, strict_mode, sections, cases, word, case, level,
                   bracestart, controlseq, specialchar, pos, blank,
                   parts, search, op, arg>>

\* while new: the loop is left when new is False.
AliasExit ==
    /\ Calling("match") /\ ~ret.new
    /\ pc' = "done"
    /\ UNCHANGED <<name, strict_mode, sections, cases, word, case, level,
                   bracestart, controlseq, specialchar, pos, error, blank,
                   parts, search, op, arg, ret>>

NextAlias == AliasRound \/ AliasExit

SpecAlias == InitAlias /\ [][NextAlias]_vars

\* The statements of the script are run one after the other.
SpecAliasFair == SpecAlias /\ WF_vars(NextAlias)

\* The aliases of the table nm, as pairs <<external name, name>>.
Aliases(nm) == {<<k, n>> : k \in DOMAIN nm, n \in UNION {nm[j] : j \in DOMAIN nm}}
                   \cap UNION {{<<k, n>> : n \in nm[k]} : k \in DOMAIN nm}

\* C29: the alias iteration terminates: no excluded ID and no alias is ever
\* removed, a round is followed by another one only if it added an alias,
\* and the loop is left after the first round that adds none.
C29_FixedPoint ==
    /\ [][/\ ret.exclude_ids \subseteq ret'.exclude_ids
          /\ Aliases(ret.name_mapping) \subseteq Aliases(ret'.name_mapping)
          /\ (pc' = "call" /\ ret'.new) =>
                 Aliases(ret'.name_mapping) # Aliases(ret.name_mapping)]_vars
    /\ [](Calling("match") => <>(pc = "done"))

====
